---------------------------- MODULE Spec2Model ----------------------------
(***************************************************************************)
(* SkeeterHawk firmware: the sonar detection pipeline (sonar.c), the main  *)
(* loop (main.c), the guidance law (guidance.c), the multi-target detector *)
(* (signal_utils.c), the configuration store (config.c) and the            *)
(* calibration (calibration.c).                                            *)
(*                                                                         *)
(* Representation of the C data:                                           *)
(*  - a float sample buffer is a function from a finite set of indices to  *)
(*    integers; an index of the buffer that is not in the domain holds 0.  *)
(*    Amplitudes are fixed point: the float 1.0 is AMP_ONE units.          *)
(*  - an angle is an integer number of ANGLE units of pi/40 rad, the       *)
(*    elevation step of the search grid; cos and sin come from COS_TABLE.  *)
(*  - target.range_cm is the numerator of a fraction whose denominator is  *)
(*    RANGE_DEN, so that idx / fs * c * 100 / 2 is exact.                  *)
(*  - guidance works in mm, mm/s and mm/s^2; the float fields of the      *)
(*    configuration are in CONFIG_ONE-ths.                                 *)
(***************************************************************************)
EXTENDS Integers, Sequences, FiniteSets, TLC

VARIABLES
    pc,              \* position of main() (main.c)
    sonar_state,     \* sonar_state_t sonar_state
    mic_buffer,      \* int16_t mic_buffer[NUM_MICS * SONAR_MAX_SAMPLES] of the cycle
    dma_running,     \* DFSDM regular conversion with DMA is running
    vehicle_state,   \* vehicle_state_t vehicle_state
    guidance_cmd,    \* guidance_cmd_t guidance_cmd
    motor_thrust,    \* float motor_thrust[4]
    cycle,           \* the current main-loop cycle: the calls made and its clock
    boot,            \* the return value of sonar_init and every call main has made
    last,            \* the last sonar_* call: its return value and what it saw
    heap,            \* the C heap: live blocks and who called the allocator
    config,          \* system_config_t held by the configuration store
    cfg_call,        \* the last config_* call and its return value
    mt,              \* signal_detect_multi_target: its input and its result
    cal,             \* system_calibration_t cal
    cal_call,        \* the last calibration_* call: its arguments and what it returned
    logger,          \* data_logger_t logger
    log_call         \* the last logger_* call, what it returned and the entries owed

vars == <<pc, sonar_state, mic_buffer, dma_running, vehicle_state,
          guidance_cmd, motor_thrust, cycle, boot, last, heap, config,
          cfg_call, mt, cal, cal_call, logger, log_call>>

-----------------------------------------------------------------------------
(* Program constants *)

SONAR_SAMPLE_RATE == 200000
SONAR_CHIRP_DURATION_MS == 1
SONAR_CHIRP_F0 == 38000
SONAR_CHIRP_F1 == 42000
SONAR_CHIRP_SAMPLES == (SONAR_SAMPLE_RATE * SONAR_CHIRP_DURATION_MS) \div 1000
SONAR_MAX_RANGE_CM == 500
\* SONAR_SAMPLE_RATE * SONAR_MAX_RANGE_CM * 2 / 34300 in unsigned arithmetic
SONAR_MAX_SAMPLES == (SONAR_SAMPLE_RATE * SONAR_MAX_RANGE_CM * 2) \div 34300
NUM_MICS == 4
BEAMFORM_AZIMUTH_STEPS == 20
BEAMFORM_ELEVATION_STEPS == 20
DETECTION_THRESHOLD == 1000
MIN_RANGE_CM == 10
MAX_RANGE_CM == 500
SPEED_OF_SOUND == 343
PCM_FULL_SCALE == 32768
ECHO_WINDOW_MS == 30
ACQUISITION_MS == 30
CYCLE_DELAY_MS == 10
LATENCY_BUDGET_MS == 50

Mics == 0 .. (NUM_MICS - 1)

-----------------------------------------------------------------------------
(* Fixed point *)

\* float 1.0 in amplitude units: the beamformer's division by NUM_MICS is
\* exact on sums of multiples of NUM_MICS units
AMP_ONE == NUM_MICS * NUM_MICS
THRESHOLD_AMP == DETECTION_THRESHOLD * AMP_ONE
\* confidence 1.0
CONF_ONE == 1000
\* denominator of target.range_cm: range_cm = idx * c * 100 / (2 * fs)
RANGE_DEN == 2 * SONAR_SAMPLE_RATE
\* cos and sin are scaled by TRIG_ONE
TRIG_ONE == 10000
\* pi/2 and pi/4 in angle units of pi/40
ANGLE_HALF_PI == 20
ANGLE_QUARTER_PI == 10
BEAMFORM_AZIMUTH_MIN == -ANGLE_HALF_PI
BEAMFORM_AZIMUTH_MAX == ANGLE_HALF_PI
BEAMFORM_ELEVATION_MIN == -ANGLE_QUARTER_PI
BEAMFORM_ELEVATION_MAX == ANGLE_QUARTER_PI

\* cos(k * pi/40) * TRIG_ONE for k = 0 .. 20
COS_TABLE == <<10000, 9969, 9877, 9724, 9511, 9239, 8910, 8526, 8090, 7604,
               7071, 6494, 5878, 5225, 4540, 3827, 3090, 2334, 1564, 785, 0>>

Abs(x) == IF x < 0 THEN -x ELSE x

Min2(a, b) == IF a < b THEN a ELSE b

Max2(a, b) == IF a > b THEN a ELSE b

SetMin(S) == CHOOSE x \in S : \A y \in S : x <= y

SetMax(S) == CHOOSE x \in S : \A y \in S : x >= y

\* C division of integers and the (int32_t) cast of a float: toward zero
TruncDiv(a, b) == IF (a >= 0) = (b > 0) THEN Abs(a) \div Abs(b) ELSE -(Abs(a) \div Abs(b))

\* arm_cos_f32 / arm_sin_f32 on an angle of -20 .. 20 units
arm_cos_f32(a) == COS_TABLE[Abs(a) + 1]

arm_sin_f32(a) == IF a < 0 THEN -COS_TABLE[(ANGLE_HALF_PI - Abs(a)) + 1]
                  ELSE COS_TABLE[(ANGLE_HALF_PI - a) + 1]

RECURSIVE SumOver(_, _)
SumOver(S, f) == IF S = {} THEN 0
                 ELSE LET x == CHOOSE y \in S : TRUE
                      IN f[x] + SumOver(S \ {x}, f)

-----------------------------------------------------------------------------
(* Sample buffers *)

\* buf[i] of a float buffer
Get(buf, i) == IF i \in DOMAIN buf THEN buf[i] ELSE 0

\* a function as the table of its values, each computed once
Table(f) == f @@ << >>

\* the buffer without its explicit zeros
Compact(buf) == Table([i \in {j \in DOMAIN buf : buf[j] # 0} |-> buf[i]])

\* a buffer holding v at the indices of S
Impulses(S, v) == Table([i \in S |-> v])

Silence == Impulses({}, 0)

-----------------------------------------------------------------------------
(* sonar.c: chirp, matched filter *)

\* mic_positions[NUM_MICS][3], in millimetres
mic_positions == <<  <<-5, -5, 0>>, <<5, -5, 0>>, <<-5, 5, 0>>, <<5, 5, 0>>  >>

\* The samples of the SONAR_CHIRP_SAMPLES-long chirp
\*   cos(2 pi (f0 t + 0.5 k t^2)) * 0.5 (1 - cos(2 pi i / (length - 1)))
\* rounded to whole amplitudes: +1 at CHIRP_PLUS, -1 at CHIRP_MINUS, else 0
CHIRP_PLUS == {52, 57, 62, 67, 72, 73, 77, 78, 82, 83, 87, 88, 92, 93, 97, 98,
               102, 103, 107, 108, 112, 113, 117, 118, 122, 123, 127, 128,
               132, 137, 142, 147}

CHIRP_MINUS == {60, 65, 70, 75, 80, 85, 90, 95, 100, 105, 110, 115, 120, 125,
                130, 135, 140}

\* The same for the chirps of 1 to 30 samples, by length: the samples that
\* round to +1 and those that round to -1
SHORT_CHIRP_PLUS == <<
    {}, {}, {}, {}, {},
    {}, {}, {5}, {5}, {5},
    {5}, {5}, {5}, {5}, {5, 10},
    {5, 10}, {5, 10}, {5, 10}, {5, 10, 11}, {5, 10, 11},
    {10, 11}, {10, 11, 15}, {10, 11, 15}, {10, 11, 15}, {10, 11, 15},
    {10, 11, 15, 16}, {10, 11, 15, 16}, {10, 11, 15, 16}, {10, 11, 15, 16, 20}, {10, 11, 15, 16, 20} >>

SHORT_CHIRP_MINUS == <<
    {}, {}, {}, {2}, {2},
    {2, 3}, {2, 3}, {3}, {3}, {3},
    {3}, {3, 7, 8}, {7, 8}, {7, 8}, {7, 8},
    {7, 8}, {7, 8}, {7, 8}, {7, 8, 13}, {7, 8, 12, 13},
    {8, 12, 13}, {8, 12, 13}, {8, 12, 13}, {8, 12, 13}, {8, 12, 13},
    {8, 12, 13, 18}, {8, 13, 18}, {8, 13, 18}, {8, 13, 18}, {8, 13, 18} >>

ChirpPlus(length) ==
    IF length = SONAR_CHIRP_SAMPLES THEN CHIRP_PLUS
    ELSE IF length \in 1 .. Len(SHORT_CHIRP_PLUS) THEN SHORT_CHIRP_PLUS[length]
    ELSE {}

ChirpMinus(length) ==
    IF length = SONAR_CHIRP_SAMPLES THEN CHIRP_MINUS
    ELSE IF length \in 1 .. Len(SHORT_CHIRP_MINUS) THEN SHORT_CHIRP_MINUS[length]
    ELSE {}

\* the samples the loop of sonar_generate_chirp stores NaN in: the window is
\* 0.5 * (1 - cos(2 pi i / (length - 1))), and 0 / 0 when length is 1
ChirpNaN(length) == IF length = 1 THEN {0} ELSE {}

\* "for (uint32_t i = 0; i < length; i++)": the samples the loop writes
ChirpWritten(length) == 0 .. (length - 1)

\* sonar_generate_chirp returns void: no status reaches the caller
ChirpError(length) == FALSE

\* sonar_generate_chirp(chirp, length): the finite samples of the chirp, for the
\* lengths of the tables
sonar_generate_chirp(length) ==
    Table([i \in ChirpPlus(length) \cup ChirpMinus(length) |->
             IF i \in ChirpPlus(length) THEN 1 ELSE -1])

\* matched_filter[i] = tx_chirp[SONAR_CHIRP_SAMPLES - 1 - i]
TimeReverse(chirp, length) ==
    Table([i \in {(length - 1) - j : j \in DOMAIN chirp} |-> chirp[(length - 1) - i]])

\* arm_correlate_f32(pSrcA, srcALen, pSrcB, srcBLen, pDst) of CMSIS-DSP.
\* The result has 2 * max(srcALen, srcBLen) - 1 places; B slides across A and
\* the srcALen + srcBLen - 1 sums
\*     c[t] = SUM k : A[k] * B[k - t + (srcBLen - 1)]
\* are stored from place first on (srcALen - srcBLen when A is the longer,
\* else 0); the other places are not written.  CorrSum is c[t], CorrPlaces the places with a non-zero sum.
CorrSum(A, B, srcBLen, t) ==
    LET K == {k \in DOMAIN A : (k - t) + (srcBLen - 1) \in DOMAIN B}
    IN SumOver(K, [k \in K |-> A[k] * B[(k - t) + (srcBLen - 1)]])

CorrPlaces(A, B, srcBLen) ==
    {(k + (srcBLen - 1)) - j : k \in DOMAIN A, j \in DOMAIN B}

arm_correlate_f32(A, srcALen, B, srcBLen) ==
    LET first == IF srcALen >= srcBLen THEN srcALen - srcBLen ELSE 0
        T == CorrPlaces(A, B, srcBLen)
    IN [first |-> first,
        last |-> first + (srcALen + srcBLen - 2),
        out |-> Compact(Table([p \in {first + t : t \in T} |->
                                  CorrSum(A, B, srcBLen, p - first)]))]

\* filtered_buffer[i] is a block of SONAR_MAX_SAMPLES + SONAR_CHIRP_SAMPLES floats
FILTERED_LEN == SONAR_MAX_SAMPLES + SONAR_CHIRP_SAMPLES

\* sonar_matched_filter(state, mic_idx): the correlation is written into
\* filtered_buffer[mic_idx]; what falls past the end of the block is a write
\* outside it (overrun).  dst holds the block's contents before the call.
StoreCorrelation(c, dst) ==
    [buf |-> Table([p \in {q \in DOMAIN dst : q < c.first \/ q > c.last}
                          \cup {q \in DOMAIN c.out : q < FILTERED_LEN} |->
                      IF p \in DOMAIN c.out THEN c.out[p] ELSE dst[p]]),
     overrun |-> c.last >= FILTERED_LEN]

sonar_matched_filter(state, mic_idx, dst) ==
    IF mic_idx >= NUM_MICS THEN [buf |-> dst, overrun |-> FALSE]
    ELSE StoreCorrelation(arm_correlate_f32(state.rx_buffer[mic_idx], state.sample_count,
                                            state.matched_filter, SONAR_CHIRP_SAMPLES),
                          dst)

-----------------------------------------------------------------------------
(* sonar.c: beamformer *)

\* steering_dir[3], scaled by TRIG_ONE
SteeringDir(azimuth, elevation) ==
    << TruncDiv(arm_cos_f32(elevation) * arm_cos_f32(azimuth), TRIG_ONE),
       TruncDiv(arm_cos_f32(elevation) * arm_sin_f32(azimuth), TRIG_ONE),
       arm_sin_f32(elevation) >>

\* dot product of mic_positions[i] and steering_dir
Dot(dir, i) == mic_positions[i + 1][1] * dir[1]
               + mic_positions[i + 1][2] * dir[2]
               + mic_positions[i + 1][3] * dir[3]

\* delays[i] * SPEED_OF_SOUND, in millimetres scaled by TRIG_ONE, relative
\* to the first microphone
DelaysOf(dir) == Table([i \in Mics |-> Dot(dir, i) - Dot(dir, 0)])

Delays(azimuth, elevation) == DelaysOf(SteeringDir(azimuth, elevation))

\* delay_samples = (int32_t)(delays[i] * SONAR_SAMPLE_RATE)
SamplesOf(d) ==
    Table([i \in Mics |-> TruncDiv(d[i] * (SONAR_SAMPLE_RATE \div 1000),
                                   SPEED_OF_SOUND * TRIG_ONE)])

DelaySamples(azimuth, elevation) == SamplesOf(Delays(azimuth, elevation))

\* the delay-and-sum loops with the sample of channel i taken shift[i] later
DelayAndSumAdvanced(n, shift, f, out) ==
    LET Src(i, j) == IF j + shift[i] >= 0 /\ j + shift[i] < n
                     THEN Get(f[i], j + shift[i]) ELSE 0
        Sum(j) == TruncDiv(SumOver(Mics, [i \in Mics |-> Src(i, j)]), NUM_MICS)
    IN Compact(Table([j \in (0 .. (n - 1)) \cup {j \in DOMAIN out : j >= n} |->
                        IF j < n THEN Sum(j) ELSE out[j]]))

\* the delay-and-sum loops: output[j] = (SUM i : f[i][j - shift[i]]) / NUM_MICS
\* over the n samples, a source index outside 0 .. n-1 adding nothing; out is
\* beamformed_output before the call
DelayAndSum(n, shift, f, out) ==
    LET Src(i, j) == IF j - shift[i] >= 0 /\ j - shift[i] < n
                     THEN Get(f[i], j - shift[i]) ELSE 0
        Sum(j) == TruncDiv(SumOver(Mics, [i \in Mics |-> Src(i, j)]), NUM_MICS)
        J == UNION {{s + shift[i] : s \in {q \in DOMAIN f[i] : q >= 0 /\ q < n}} : i \in Mics}
    IN Table([j \in {j \in J : j >= 0 /\ j < n} \cup {j \in DOMAIN out : j >= n} |->
                IF j < n THEN Sum(j) ELSE out[j]])

\* sonar_beamform(state, azimuth, elevation): the new beamformed_output
sonar_beamform(state, azimuth, elevation) ==
    DelayAndSum(state.sample_count, DelaySamples(azimuth, elevation),
                state.filtered_buffer, state.beamformed_output)

\* arm_max_f32(pSrc, blockSize, pResult, pIndex): the largest value and the
\* first index holding it
arm_max_f32(buf, blockSize) ==
    LET D == {j \in DOMAIN buf : j < blockSize}
        free == (0 .. Cardinality(D)) \ D
        C == IF Cardinality(D) < blockSize THEN D \cup {SetMin(free)} ELSE D
        val == SetMax({Get(buf, j) : j \in C})
    IN [val |-> val, idx |-> SetMin({j \in C : Get(buf, j) = val})]

-----------------------------------------------------------------------------
(* sonar.c: detection *)

\* memset(&state->target, 0, sizeof(target_info_t))
NoTarget == [range_cm |-> 0, azimuth_rad |-> 0, elevation_rad |-> 0,
             confidence |-> 0, valid |-> FALSE]

GridPoints == BEAMFORM_AZIMUTH_STEPS * BEAMFORM_ELEVATION_STEPS

az_step == (BEAMFORM_AZIMUTH_MAX - BEAMFORM_AZIMUTH_MIN) \div BEAMFORM_AZIMUTH_STEPS

el_step == (BEAMFORM_ELEVATION_MAX - BEAMFORM_ELEVATION_MIN) \div BEAMFORM_ELEVATION_STEPS

\* azimuth and elevation of the k-th grid point in scan order: the azimuth
\* loop is the outer one
GridAzimuth(k) == BEAMFORM_AZIMUTH_MIN + (k \div BEAMFORM_ELEVATION_STEPS) * az_step

GridElevation(k) == BEAMFORM_ELEVATION_MIN + (k % BEAMFORM_ELEVATION_STEPS) * el_step

\* max_power / (DETECTION_THRESHOLD * 10.0f) without the fminf
ConfidenceUncapped(max_power) == (max_power * CONF_ONE) \div (THRESHOLD_AMP * 10)

\* fminf(max_power / (DETECTION_THRESHOLD * 10.0f), 1.0f), in CONF_ONE-ths
Confidence(max_power) ==
    Min2((max_power * CONF_ONE) \div (THRESHOLD_AMP * 10), CONF_ONE)

\* range_cm = (best_peak_idx / SONAR_SAMPLE_RATE * SPEED_OF_SOUND * 100) / 2,
\* as a numerator over RANGE_DEN
RangeCm(best_peak_idx) == best_peak_idx * SPEED_OF_SOUND * 100

\* "if (power > max_power)": the running best after a grid point
BetterPeak(power, max_power) == power > max_power

\* the detection without its threshold check
NeverBelowThreshold(max_power) == FALSE

\* "if (max_power < DETECTION_THRESHOLD)"
BelowThreshold(max_power) == max_power < THRESHOLD_AMP

\* the range check without its lower bound
OutOfRangeAbove(range_cm) == range_cm > MAX_RANGE_CM * RANGE_DEN

\* "if (range_cm < MIN_RANGE_CM || range_cm > MAX_RANGE_CM)"
OutOfRange(range_cm) ==
    range_cm < MIN_RANGE_CM * RANGE_DEN \/ range_cm > MAX_RANGE_CM * RANGE_DEN

\* what the body of the scan loop finds at grid point k: power = fabsf(peak_val)
\* and peak_idx
PeakAt(k, peak) == [k |-> k, power |-> Abs(peak.val), idx |-> peak.idx]

\* delay_samples[] of sonar_beamform at each grid point
GridShift ==
    Table([k \in 0 .. (GridPoints - 1) |->
             DelaySamples(GridAzimuth(k), GridElevation(k))])

\* sonar_beamform depends on the angles through delay_samples[] alone: the
\* arm_max_f32 of its output, for each delay_samples[] of the grid
ShiftPeaks(st) ==
    Table([shift \in {GridShift[k] : k \in DOMAIN GridShift} |->
             arm_max_f32(DelayAndSum(st.sample_count, shift, st.filtered_buffer,
                                     st.beamformed_output),
                         st.sample_count)])

GridPeak(peaks, k) == PeakAt(k, peaks[GridShift[k]])

GridPeaks(peaks) == {GridPeak(peaks, k) : k \in DOMAIN GridShift}

\* The running max_power before a grid point is the largest power of the
\* earlier grid points (0.0f before the first), so the values left by the
\* assignments under "if (power > max_power)" are those of the grid point
\* that beat every earlier one and that no later one beat.
LastUpdate(Peaks) ==
    {r \in Peaks :
       /\ BetterPeak(r.power, 0)
       /\ \A q \in Peaks :
            /\ q.k < r.k => BetterPeak(r.power, q.power)
            /\ q.k > r.k => ~BetterPeak(q.power, r.power)}

\* max_power, best_azimuth, best_elevation and best_peak_idx after the scan
BestOf(Last) ==
    IF Last = {}
    THEN [max_power |-> 0, best_azimuth |-> 0, best_elevation |-> 0, best_peak_idx |-> 0]
    ELSE LET r == CHOOSE q \in Last : TRUE
         IN [max_power |-> r.power, best_azimuth |-> GridAzimuth(r.k),
             best_elevation |-> GridElevation(r.k), best_peak_idx |-> r.idx]

\* the search over angles of sonar_detect_target
AngularSearch(st) == BestOf(LastUpdate(GridPeaks(ShiftPeaks(st))))

\* the filtered buffers after the matched-filter loop; junk[i] is what
\* filtered_buffer[i] holds where no correlation has written: the block comes
\* from malloc and is not cleared.
MatchedFilters(state, junk) ==
    Table([i \in Mics |-> sonar_matched_filter(state, i, junk[i])])

\* the threshold and range checks and the assignment of state->target;
\* st is the state after the scan, whose last beamformed output is that of
\* the last grid point
Outcome(st, best, overrun) ==
    IF BelowThreshold(best.max_power)
    THEN [state |-> [st EXCEPT !.target.valid = FALSE],
          ret |-> -2, overrun |-> overrun, peak |-> best]
    ELSE IF OutOfRange(RangeCm(best.best_peak_idx))
    THEN [state |-> [st EXCEPT !.target.valid = FALSE],
          ret |-> -3, overrun |-> overrun, peak |-> best]
    ELSE [state |-> [st EXCEPT
                       !.target = [range_cm |-> RangeCm(best.best_peak_idx),
                                   azimuth_rad |-> best.best_azimuth,
                                   elevation_rad |-> best.best_elevation,
                                   confidence |-> Confidence(best.max_power),
                                   valid |-> TRUE],
                       !.processing_complete = TRUE],
          ret |-> 0, overrun |-> overrun, peak |-> best]

Scanned(st, overrun) ==
    Outcome([st EXCEPT !.beamformed_output =
                 sonar_beamform(st, GridAzimuth(GridPoints - 1),
                                GridElevation(GridPoints - 1))],
            AngularSearch(st), overrun)

Filtered(state, mf) ==
    Scanned([state EXCEPT !.filtered_buffer = Table([i \in Mics |-> mf[i].buf])],
            \E i \in Mics : mf[i].overrun)

\* sonar_detect_target(state): [state, ret, overrun, peak]
sonar_detect_target(state, junk) == Filtered(state, MatchedFilters(state, junk))

\* sonar_get_target without its look at target.valid
sonar_get_target_unchecked(state, out) == [ret |-> 0, target |-> state.target]

\* sonar_get_target(state, target): [ret, target]; out is *target before the call
sonar_get_target(state, out) ==
    IF ~state.target.valid THEN [ret |-> -2, target |-> out]
    ELSE [ret |-> 0, target |-> state.target]

-----------------------------------------------------------------------------
(* guidance.c.  Lengths are millimetres, velocities mm/s, accelerations      *)
(* mm/s^2; the line-of-sight unit vector and its rate are scaled by LOS_ONE. *)

GUIDANCE_N == 3
\* GUIDANCE_MAX_ACCEL 9.81 m/s^2, in mm/s^2
GUIDANCE_MAX_ACCEL == 9810
\* GUIDANCE_MIN_RANGE_CM 5.0 cm
GUIDANCE_MIN_RANGE_CM == 5
LOS_ONE == 1000
\* a thrust of 1.0: 0.25 per m/s^2 is one unit per mm/s^2
THRUST_ONE == 4 * LOS_ONE

\* sqrtf, rounded down
RECURSIVE SqrtSearch(_, _, _)
SqrtSearch(n, lo, hi) ==
    IF lo >= hi THEN lo
    ELSE LET mid == (lo + hi + 1) \div 2
         IN IF mid * mid <= n THEN SqrtSearch(n, mid, hi)
            ELSE SqrtSearch(n, lo, mid - 1)

sqrtf(n) == SqrtSearch(n, 0, Min2(n, 46340))

\* vehicle_state after memset(&vehicle_state, 0, ...)
ZeroVehicle == [pos_x |-> 0, pos_y |-> 0, pos_z |-> 0,
                vel_x |-> 0, vel_y |-> 0, vel_z |-> 0]

\* a zero-initialised guidance_cmd_t
ZeroCmd == [accel_x |-> 0, accel_y |-> 0, accel_z |-> 0, intercept |-> FALSE]

\* what guidance_compute has computed: the command, and the acceleration
\* and its magnitude before the limit
Computed(cmd, accel, accel_mag) == [cmd |-> cmd, accel |-> accel, accel_mag |-> accel_mag]

\* the command is written without the limit
Unlimited(accel, accel_mag) ==
    Computed([accel_x |-> accel[1], accel_y |-> accel[2], accel_z |-> accel[3],
              intercept |-> FALSE], accel, accel_mag)

\* "if (accel_mag > GUIDANCE_MAX_ACCEL) { scale = ...; accel_x *= scale; ... }"
Limit(accel, accel_mag) ==
    IF accel_mag > GUIDANCE_MAX_ACCEL
    THEN Computed([accel_x |-> TruncDiv(accel[1] * GUIDANCE_MAX_ACCEL, accel_mag),
                   accel_y |-> TruncDiv(accel[2] * GUIDANCE_MAX_ACCEL, accel_mag),
                   accel_z |-> TruncDiv(accel[3] * GUIDANCE_MAX_ACCEL, accel_mag),
                   intercept |-> FALSE], accel, accel_mag)
    ELSE Computed([accel_x |-> accel[1], accel_y |-> accel[2], accel_z |-> accel[3],
                   intercept |-> FALSE], accel, accel_mag)

\* accel_mag = sqrtf(accel_x^2 + accel_y^2 + accel_z^2)
Limited(accel) ==
    Limit(accel, sqrtf(accel[1] * accel[1] + accel[2] * accel[2] + accel[3] * accel[3]))

\* accel = GUIDANCE_N * closing_vel * los_rate
Command(closing_vel, los_rate) ==
    Limited(<< TruncDiv(GUIDANCE_N * closing_vel * los_rate[1], LOS_ONE),
               TruncDiv(GUIDANCE_N * closing_vel * los_rate[2], LOS_ONE),
               TruncDiv(GUIDANCE_N * closing_vel * los_rate[3], LOS_ONE) >>)

\* los_rate = (rel_vel - los * closing_vel) / range
Turn(rel_vel, los, range, closing_vel) ==
    Command(closing_vel,
            << TruncDiv((rel_vel[1] - TruncDiv(los[1] * closing_vel, LOS_ONE)) * LOS_ONE, range),
               TruncDiv((rel_vel[2] - TruncDiv(los[2] * closing_vel, LOS_ONE)) * LOS_ONE, range),
               TruncDiv((rel_vel[3] - TruncDiv(los[3] * closing_vel, LOS_ONE)) * LOS_ONE, range) >>)

\* closing_vel = los . rel_vel
Closing(rel_vel, los, range) ==
    Turn(rel_vel, los, range,
         TruncDiv(los[1] * rel_vel[1] + los[2] * rel_vel[2] + los[3] * rel_vel[3], LOS_ONE))

\* the intercept test taken with <= in place of <
PursueWithin(vehicle, rel, range) ==
    IF range <= GUIDANCE_MIN_RANGE_CM * 10
    THEN Computed([accel_x |-> 0, accel_y |-> 0, accel_z |-> 0, intercept |-> TRUE],
                  << 0, 0, 0 >>, 0)
    ELSE Closing(<< -vehicle.vel_x, -vehicle.vel_y, -vehicle.vel_z >>,
                 << TruncDiv(rel[1] * LOS_ONE, range), TruncDiv(rel[2] * LOS_ONE, range),
                    TruncDiv(rel[3] * LOS_ONE, range) >>,
                 range)

\* "if (range < GUIDANCE_MIN_RANGE_CM / 100.0f)": intercept; else the
\* line of sight los = rel / range and rel_vel = -vehicle velocity
Pursue(vehicle, rel, range) ==
    IF range < GUIDANCE_MIN_RANGE_CM * 10
    THEN Computed([accel_x |-> 0, accel_y |-> 0, accel_z |-> 0, intercept |-> TRUE],
                  << 0, 0, 0 >>, 0)
    ELSE Closing(<< -vehicle.vel_x, -vehicle.vel_y, -vehicle.vel_z >>,
                 << TruncDiv(rel[1] * LOS_ONE, range), TruncDiv(rel[2] * LOS_ONE, range),
                    TruncDiv(rel[3] * LOS_ONE, range) >>,
                 range)

\* range = sqrtf(rel_x^2 + rel_y^2 + rel_z^2)
Relative(vehicle, rel) ==
    Pursue(vehicle, rel, sqrtf(rel[1] * rel[1] + rel[2] * rel[2] + rel[3] * rel[3]))

\* the target in Cartesian coordinates, target_range in millimetres
TargetPosition(target_range, azimuth, elevation) ==
    << TruncDiv(TruncDiv(target_range * arm_cos_f32(elevation), TRIG_ONE)
                * arm_cos_f32(azimuth), TRIG_ONE),
       TruncDiv(TruncDiv(target_range * arm_cos_f32(elevation), TRIG_ONE)
                * arm_sin_f32(azimuth), TRIG_ONE),
       TruncDiv(target_range * arm_sin_f32(elevation), TRIG_ONE) >>

\* rel = target position - vehicle position
Towards(vehicle, pos) ==
    Relative(vehicle, << pos[1] - vehicle.pos_x, pos[2] - vehicle.pos_y,
                         pos[3] - vehicle.pos_z >>)

\* guidance_compute returns ret with what it has computed
Returned(ret, c) == [ret |-> ret, cmd |-> c.cmd, accel |-> c.accel, accel_mag |-> c.accel_mag]

\* the target position handed to guidance_compute, in millimetres
PositionOf(target) ==
    TargetPosition((target.range_cm * 10) \div RANGE_DEN,
                   target.azimuth_rad, target.elevation_rad)

\* guidance_compute(vehicle, target, cmd): [ret, cmd, accel, accel_mag]
guidance_compute(vehicle, target, cmd) ==
    IF ~target.valid THEN Returned(-2, Computed(cmd, << 0, 0, 0 >>, 0))
    ELSE Returned(0, Towards(vehicle, PositionOf(target)))

\* only the lower bound of the clamp
ClampThrustBelow(t) == IF t < 0 THEN 0 ELSE t

\* "if (motor_thrust[i] < 0.0f) ... if (motor_thrust[i] > 1.0f) ..."
ClampThrust(t) == IF t < 0 THEN 0 ELSE IF t > THRUST_ONE THEN THRUST_ONE ELSE t

\* guidance_to_motors(cmd, motor_thrust): the new motor_thrust[4]
guidance_to_motors(cmd) ==
    LET base_thrust == THRUST_ONE \div 2
    IN << ClampThrust(base_thrust + cmd.accel_x + cmd.accel_y + cmd.accel_z),
          ClampThrust(base_thrust - cmd.accel_x + cmd.accel_y + cmd.accel_z),
          ClampThrust(base_thrust + cmd.accel_x - cmd.accel_y + cmd.accel_z),
          ClampThrust(base_thrust - cmd.accel_x - cmd.accel_y + cmd.accel_z) >>

-----------------------------------------------------------------------------
(* sonar_init and the heap *)

\* the malloc calls of sonar_init, in call order
AllocOrder == <<"tx_chirp", "matched_filter", "beamformed_output",
                "rx_buffer[0]", "filtered_buffer[0]", "rx_buffer[1]", "filtered_buffer[1]",
                "rx_buffer[2]", "filtered_buffer[2]", "rx_buffer[3]", "filtered_buffer[3]">>

Blocks == {AllocOrder[n] : n \in 1 .. Len(AllocOrder)}

\* the malloc calls of the loop pass for microphone i
PairOf(i) == {AllocOrder[4 + 2 * i], AllocOrder[5 + 2 * i]}

\* a sonar_state_t in zero-initialised storage
ZeroState == [tx_chirp |-> Silence, matched_filter |-> Silence,
              rx_buffer |-> [i \in Mics |-> Silence],
              filtered_buffer |-> [i \in Mics |-> Silence],
              beamformed_output |-> Silence,
              target |-> NoTarget, processing_complete |-> FALSE, sample_count |-> 0]

\* sonar_init(state) when the malloc calls named in null return NULL:
\* [ret, state, live]; live are the blocks obtained
sonar_init(state, null) ==
    LET bad == {i \in Mics : PairOf(i) \cap null # {}}
        stop == IF bad = {} THEN NUM_MICS ELSE SetMin(bad)
        called == {AllocOrder[n] : n \in 1 .. 3}
                  \cup UNION {PairOf(i) : i \in {m \in Mics : m <= stop}}
        chirp == sonar_generate_chirp(SONAR_CHIRP_SAMPLES)
    IN IF bad # {} \/ null \cap {AllocOrder[n] : n \in 1 .. 3} # {}
       THEN [ret |-> -2, state |-> state, live |-> called \ null]
       ELSE [ret |-> 0, live |-> called,
             state |-> [state EXCEPT
                          !.tx_chirp = chirp,
                          !.matched_filter = TimeReverse(chirp, SONAR_CHIRP_SAMPLES),
                          !.target = NoTarget,
                          !.processing_complete = FALSE,
                          !.sample_count = 0]]

-----------------------------------------------------------------------------
(* dfsdm_mic.c, HAL *)

\* HAL_Delay(Delay): the tick count after the call
HAL_Delay(now, Delay) == now + Delay

\* dfsdm_convert_pdm_to_pcm(pdm_data, pcm_data, length):
\* pcm_data[i] = (float32_t)pdm_data[i] / 32768.0f
dfsdm_convert_pdm_to_pcm(pdm_data, length) ==
    Compact([i \in {j \in DOMAIN pdm_data : j < length} |->
                TruncDiv(pdm_data[i] * AMP_ONE, PCM_FULL_SCALE)])

-----------------------------------------------------------------------------
(* signal_utils.c.  A signal is a sample buffer of whole amplitudes; the    *)
(* mean, the standard deviation and the ranges are kept as exact fractions. *)

ADAPTIVE_THRESHOLD_FACTOR == 3
MAX_TARGETS == 5
MIN_TARGET_SEPARATION_CM == 20

\* signal_adaptive_threshold(signal, length, threshold): [ret, threshold].
\* The threshold mean + ADAPTIVE_THRESHOLD_FACTOR * std is kept as the
\* length n, the sum and the sum of squares it is computed from:
\* arm_mean_f32 is sum / n and arm_std_f32 is
\* sqrt((sumsq - sum^2 / n) / (n - 1)), and 0 for n = 1.
signal_adaptive_threshold(signal, length) ==
    IF length = 0 THEN [ret |-> -1, threshold |-> [n |-> 0, sum |-> 0, sumsq |-> 0]]
    ELSE [ret |-> 0,
          threshold |->
            [n |-> length,
             sum |-> SumOver({i \in DOMAIN signal : i < length}, signal),
             sumsq |-> SumOver({i \in DOMAIN signal : i < length},
                               [i \in DOMAIN signal |-> signal[i] * signal[i]])]]

\* "val > threshold": val - mean > FACTOR * std, both sides squared
AboveThreshold(val, t) ==
    /\ t.n * val - t.sum > 0
    /\ t.n > 1 =>
         (t.n - 1) * (t.n * val - t.sum) * (t.n * val - t.sum)
           > ADAPTIVE_THRESHOLD_FACTOR * ADAPTIVE_THRESHOLD_FACTOR * t.n
             * (t.n * t.sumsq - t.sum * t.sum)

\* the n smallest members of S, in increasing order
RECURSIVE Smallest(_, _)
Smallest(S, n) ==
    IF S = {} \/ n = 0 THEN << >>
    ELSE <<SetMin(S)>> \o Smallest(S \ {SetMin(S)}, n - 1)

\* "val > threshold && val > fabsf(signal[i-1]) && val > fabsf(signal[i+1])"
IsPeak(signal, i, threshold) ==
    /\ AboveThreshold(Abs(Get(signal, i)), threshold)
    /\ Abs(Get(signal, i)) > Abs(Get(signal, i - 1))
    /\ Abs(Get(signal, i)) > Abs(Get(signal, i + 1))

\* the loop of signal_find_peaks running on to the last sample
signal_find_peaks_to_end(signal, length, threshold, max_peaks) ==
    IF length = 0 THEN [ret |-> -1, peaks |-> << >>]
    ELSE [ret |-> 0,
          peaks |-> Smallest({i \in 1 .. (length - 1) : IsPeak(signal, i, threshold)},
                             max_peaks)]

\* signal_find_peaks(signal, length, threshold, peaks, max_peaks, num_peaks):
\* [ret, peaks]; num_peaks is Len(peaks).  The loop runs i from 1 while
\* i < length - 1 and fewer than max_peaks peaks have been stored.
signal_find_peaks(signal, length, threshold, max_peaks) ==
    IF length = 0 THEN [ret |-> -1, peaks |-> << >>]
    ELSE [ret |-> 0,
          peaks |-> Smallest({i \in 1 .. (length - 2) : IsPeak(signal, i, threshold)},
                             max_peaks)]

\* A cluster under construction: cluster->range_cm, the running average of
\* the ranges (p * SPEED_OF_SOUND * 100) / (2 * sample_rate) of its peaks,
\* is kept as the sum of their indices over sample_count; peaks are the
\* peaks it has been made of.
NewCluster(p, signal) ==
    [sum |-> p, sample_count |-> 1, power |-> Abs(Get(signal, p)), peaks |-> {p}]

\* "separation < MIN_TARGET_SEPARATION_CM" for peak index p
Near(cluster, p, sample_rate) ==
    SPEED_OF_SOUND * 100 * Abs(cluster.sample_count * p - cluster.sum)
      < MIN_TARGET_SEPARATION_CM * 2 * sample_rate * cluster.sample_count

\* "Merge into cluster"
Merged(cluster, p, signal) ==
    [sum |-> cluster.sum + p, sample_count |-> cluster.sample_count + 1,
     power |-> Max2(cluster.power, Abs(Get(signal, p))), peaks |-> cluster.peaks \cup {p}]

\* the loop "for (j = i + 1; j < num_peaks; j++)" from j on
RECURSIVE MergeFrom(_, _, _, _, _, _)
MergeFrom(j, cluster, processed, peaks, signal, sample_rate) ==
    IF j > Len(peaks) THEN [cluster |-> cluster, processed |-> processed]
    ELSE IF j \in processed \/ ~Near(cluster, peaks[j], sample_rate)
    THEN MergeFrom(j + 1, cluster, processed, peaks, signal, sample_rate)
    ELSE MergeFrom(j + 1, Merged(cluster, peaks[j], signal), processed \cup {j},
                   peaks, signal, sample_rate)

\* the loop "for (i = 0; i < num_peaks && *num_clusters < max_clusters; i++)"
\* from i on; m is what the inner loop has left
RECURSIVE ClusterFrom(_, _, _, _, _, _, _)
RECURSIVE ClusterNext(_, _, _, _, _, _, _)
ClusterNext(i, m, clusters, peaks, signal, sample_rate, max_clusters) ==
    ClusterFrom(i + 1, Append(clusters, m.cluster), m.processed, peaks, signal,
                sample_rate, max_clusters)

ClusterFrom(i, clusters, processed, peaks, signal, sample_rate, max_clusters) ==
    IF i > Len(peaks) \/ Len(clusters) >= max_clusters THEN clusters
    ELSE IF i \in processed
    THEN ClusterFrom(i + 1, clusters, processed, peaks, signal, sample_rate, max_clusters)
    ELSE ClusterNext(i, MergeFrom(i + 1, NewCluster(peaks[i], signal), processed \cup {i},
                                  peaks, signal, sample_rate),
                     clusters, peaks, signal, sample_rate, max_clusters)

\* signal_cluster_detections(peaks, num_peaks, signal, length, sample_rate,
\* clusters, max_clusters, num_clusters): [ret, clusters, allocator];
\* allocator are the heap functions called, null says that calloc returns NULL
signal_cluster_detections(peaks, signal, sample_rate, max_clusters, null) ==
    IF Len(peaks) = 0 THEN [ret |-> -1, clusters |-> << >>, allocator |-> {}]
    ELSE IF null THEN [ret |-> -2, clusters |-> << >>, allocator |-> {"calloc"}]
    ELSE [ret |-> 0,
          clusters |-> ClusterFrom(1, << >>, {}, peaks, signal, sample_rate, max_clusters),
          allocator |-> {"calloc", "free"}]

\* a zero-initialised multi_target_result_t
NoResult == [targets |-> << >>, num_targets |-> 0, valid |-> FALSE]

\* "result->targets[i] = clusters[i]; azimuth_rad = 0.0f; elevation_rad = 0.0f":
\* the entries of result->targets past the clusters keep what they held
CopyClusters(clusters, targets) ==
    [i \in 1 .. Max2(Len(clusters), Len(targets)) |->
        IF i <= Len(clusters)
        THEN [sum |-> clusters[i].sum, sample_count |-> clusters[i].sample_count,
              power |-> clusters[i].power, azimuth_rad |-> 0, elevation_rad |-> 0]
        ELSE targets[i]]

\* the end of signal_detect_multi_target, c being what
\* signal_cluster_detections returned
Clustered(c, result) ==
    IF c.ret # 0
    THEN [ret |-> -4, allocator |-> c.allocator,
          result |-> [result EXCEPT !.num_targets = 0, !.valid = FALSE]]
    ELSE [ret |-> 0, allocator |-> c.allocator,
          result |-> [targets |-> CopyClusters(c.clusters, result.targets),
                      num_targets |-> Len(c.clusters),
                      valid |-> Len(c.clusters) > 0]]

\* signal_detect_multi_target from the peaks on, f being what
\* signal_find_peaks returned
PeaksFound(f, signal, sample_rate, result, null) ==
    IF f.ret # 0
    THEN [ret |-> -3, allocator |-> {},
          result |-> [result EXCEPT !.num_targets = 0, !.valid = FALSE]]
    ELSE IF Len(f.peaks) = 0
    THEN [ret |-> 0, allocator |-> {},
          result |-> [result EXCEPT !.num_targets = 0, !.valid = FALSE]]
    ELSE Clustered(signal_cluster_detections(f.peaks, signal, sample_rate,
                                             MAX_TARGETS, null),
                   result)

\* signal_detect_multi_target from the threshold on, t being what
\* signal_adaptive_threshold returned
ThresholdFound(t, signal, length, sample_rate, result, null) ==
    IF t.ret # 0
    THEN [ret |-> -2, allocator |-> {},
          result |-> [result EXCEPT !.num_targets = 0, !.valid = FALSE]]
    ELSE PeaksFound(signal_find_peaks(signal, length, t.threshold, MAX_TARGETS * 2),
                    signal, sample_rate, result, null)

\* the call goes on without the test of its arguments
signal_detect_multi_target_unchecked(beamformed_output, length, sample_rate, result, null) ==
    ThresholdFound(signal_adaptive_threshold(beamformed_output, length),
                   beamformed_output, length, sample_rate, result, null)

\* signal_detect_multi_target(beamformed_output, length, sample_rate, result):
\* [ret, result, allocator]
signal_detect_multi_target(beamformed_output, length, sample_rate, result, null) ==
    IF length = 0 THEN [ret |-> -1, allocator |-> {}, result |-> result]
    ELSE ThresholdFound(signal_adaptive_threshold(beamformed_output, length),
                        beamformed_output, length, sample_rate, result, null)

\* no signal_detect_multi_target call yet
NoMultiTarget == [signal |-> Silence, length |-> 0, sample_rate |-> SONAR_SAMPLE_RATE,
                  called |-> FALSE, ret |-> 0, result |-> NoResult, before |-> NoResult]

-----------------------------------------------------------------------------
(* config.c.  The float fields of guidance_config_t and the detection       *)
(* threshold are floats: a number in CONFIG_ONE-ths, or NaN.                *)

CONFIG_ONE == 100

\* the float of value v / CONFIG_ONE
Float(v) == [nan |-> FALSE, val |-> v]

\* the float NaN
NaN == [nan |-> TRUE, val |-> 0]

\* a < b on floats: false when either is NaN
FloatLess(a, b) == ~a.nan /\ ~b.nan /\ a.val < b.val

\* a <= b on floats: false when either is NaN
FloatLessEq(a, b) == ~a.nan /\ ~b.nan /\ a.val <= b.val
CONFIG_VERSION == 1
CONFIG_DEFAULT_SONAR_SAMPLE_RATE == 200000
CONFIG_DEFAULT_SONAR_CHIRP_DURATION_MS == 1
CONFIG_DEFAULT_SONAR_CHIRP_F0 == 38000
CONFIG_DEFAULT_SONAR_CHIRP_F1 == 42000
CONFIG_DEFAULT_SONAR_THRESHOLD == 100000
CONFIG_DEFAULT_SONAR_MAX_RANGE_CM == 500
CONFIG_DEFAULT_SONAR_MIN_RANGE_CM == 10
CONFIG_DEFAULT_GUIDANCE_N == 300
CONFIG_DEFAULT_GUIDANCE_MAX_ACCEL == 981
CONFIG_DEFAULT_GUIDANCE_MIN_RANGE_CM == 500
CONFIG_DEFAULT_LOG_LEVEL == 2

DefaultSonarConfig ==
    [sample_rate |-> CONFIG_DEFAULT_SONAR_SAMPLE_RATE,
     chirp_duration_ms |-> CONFIG_DEFAULT_SONAR_CHIRP_DURATION_MS,
     chirp_f0 |-> CONFIG_DEFAULT_SONAR_CHIRP_F0,
     chirp_f1 |-> CONFIG_DEFAULT_SONAR_CHIRP_F1,
     detection_threshold |-> Float(CONFIG_DEFAULT_SONAR_THRESHOLD),
     max_range_cm |-> CONFIG_DEFAULT_SONAR_MAX_RANGE_CM,
     min_range_cm |-> CONFIG_DEFAULT_SONAR_MIN_RANGE_CM]

DefaultGuidanceConfig ==
    [navigation_constant |-> Float(CONFIG_DEFAULT_GUIDANCE_N),
     max_acceleration |-> Float(CONFIG_DEFAULT_GUIDANCE_MAX_ACCEL),
     min_range_cm |-> Float(CONFIG_DEFAULT_GUIDANCE_MIN_RANGE_CM)]

\* a system_config_t in zero-initialised storage
ZeroConfig ==
    [version |-> 0,
     sonar |-> [sample_rate |-> 0, chirp_duration_ms |-> 0, chirp_f0 |-> 0, chirp_f1 |-> 0,
                detection_threshold |-> Float(0), max_range_cm |-> 0, min_range_cm |-> 0],
     guidance |-> [navigation_constant |-> Float(0), max_acceleration |-> Float(0),
                   min_range_cm |-> Float(0)],
     logging_enabled |-> FALSE, log_level |-> 0]

\* config_init(config): [ret, config]
config_init(cfg) ==
    [ret |-> 0,
     config |-> [version |-> CONFIG_VERSION, sonar |-> DefaultSonarConfig,
                 guidance |-> DefaultGuidanceConfig, logging_enabled |-> FALSE,
                 log_level |-> CONFIG_DEFAULT_LOG_LEVEL]]

\* config_load(config): "For now, just initialize with defaults"
config_load(cfg) == config_init(cfg)

\* config_reset(config)
config_reset(cfg) == config_init(cfg)

\* config_validate(config): the return value
config_validate(cfg) ==
    IF cfg.sonar.sample_rate < 100000 \/ cfg.sonar.sample_rate > 500000 THEN -2
    ELSE IF cfg.sonar.chirp_duration_ms = 0 \/ cfg.sonar.chirp_duration_ms > 10 THEN -3
    ELSE IF cfg.sonar.chirp_f0 >= cfg.sonar.chirp_f1 THEN -4
    ELSE IF cfg.sonar.min_range_cm >= cfg.sonar.max_range_cm THEN -5
    ELSE IF \/ FloatLess(cfg.guidance.navigation_constant, Float(1 * CONFIG_ONE))
            \/ FloatLess(Float(10 * CONFIG_ONE), cfg.guidance.navigation_constant) THEN -6
    ELSE IF FloatLessEq(cfg.guidance.max_acceleration, Float(0)) THEN -7
    ELSE 0

\* config_save(config): the return value
config_save(cfg) == IF config_validate(cfg) # 0 THEN -2 ELSE 0

\* the stored configuration with the new sonar part
SonarStored(cfg, sonar_config) == [cfg EXCEPT !.sonar = sonar_config]

\* the stored configuration with the new guidance part
GuidanceStored(cfg, guidance_config) == [cfg EXCEPT !.guidance = guidance_config]

\* what a config_set_* call returns on the configuration it has stored
Validated(cfg) == [ret |-> config_validate(cfg), config |-> cfg]

\* config_set_sonar(config, sonar_config): "config->sonar = *sonar_config;
\* return config_validate(config);"
config_set_sonar(cfg, sonar_config) == Validated(SonarStored(cfg, sonar_config))

\* config_set_guidance(config, guidance_config): "config->guidance =
\* *guidance_config; return config_validate(config);"
config_set_guidance(cfg, guidance_config) == Validated(GuidanceStored(cfg, guidance_config))

\* no config_* call yet
NoConfigCall == [op |-> "none", ret |-> 0, before |-> ZeroConfig]

-----------------------------------------------------------------------------
(* calibration.c.  Gains, offsets, samples and the transmit power are in    *)
(* amplitude units, a temperature is a whole number of degrees Celsius and  *)
(* the speed of sound is in mm/s.                                           *)

CALIBRATION_TEMPERATURE == 20
\* "c = 331.3 + 0.606 * T (m/s)"
SPEED_OF_SOUND_BASE == 331300
SPEED_OF_SOUND_COEFF == 606

\* mic_calibration_t with every gain at gain and every offset at 0.0
MicCalibration(gain, calibrated) ==
    [gain |-> [i \in Mics |-> gain], phase_offset |-> [i \in Mics |-> 0],
     dc_offset |-> [i \in Mics |-> 0], calibrated |-> calibrated]

\* system_calibration_t, all zero
ZeroCalibration ==
    [mic_cal |-> MicCalibration(0, FALSE), speed_of_sound |-> 0, temperature |-> 0,
     tx_power |-> 0, system_calibrated |-> FALSE]

\* "SPEED_OF_SOUND_BASE + SPEED_OF_SOUND_COEFF * temperature"
SpeedOfSound(temperature) == SPEED_OF_SOUND_BASE + SPEED_OF_SOUND_COEFF * temperature

\* calibration_init(cal)
calibration_init(c) ==
    [ret |-> 0,
     cal |-> [mic_cal |-> MicCalibration(AMP_ONE, FALSE),
              speed_of_sound |-> SpeedOfSound(CALIBRATION_TEMPERATURE),
              temperature |-> CALIBRATION_TEMPERATURE,
              tx_power |-> AMP_ONE,
              system_calibrated |-> FALSE]]

\* calibration_calibrate_mics(cal, reference_signal, length); reference is
\* FALSE for a NULL reference_signal
calibration_calibrate_mics(c, reference, length) ==
    IF ~reference \/ length = 0 THEN [ret |-> -1, cal |-> c]
    ELSE [ret |-> 0, cal |-> [c EXCEPT !.mic_cal = MicCalibration(AMP_ONE, TRUE)]]

\* calibration_set_temperature(cal, temperature)
calibration_set_temperature(c, temperature) ==
    [ret |-> 0,
     cal |-> [c EXCEPT !.temperature = temperature,
                       !.speed_of_sound = SpeedOfSound(temperature)]]

\* calibration_is_calibrated(cal)
calibration_is_calibrated(c) == c.system_calibrated /\ c.mic_cal.calibrated

\* the gain applied before the offset is taken off
GainFirst(raw, dc_offset, gain) == (raw * gain) \div AMP_ONE - dc_offset

\* "(raw_signals[i][j] - dc_offset) * gain"
Corrected(raw, dc_offset, gain) == ((raw - dc_offset) * gain) \div AMP_ONE

\* memcpy(dst, src, length * sizeof(float32_t))
Copied(dst, src, length) ==
    [j \in DOMAIN dst |-> IF j < length THEN src[j] ELSE dst[j]]

\* the loop over j of calibration_apply on channel i
CorrectedChannel(dst, src, length, dc_offset, gain) ==
    [j \in DOMAIN dst |-> IF j < length THEN Corrected(src[j], dc_offset, gain) ELSE dst[j]]

\* calibration_apply(cal, raw_signals, calibrated_signals, length): what is
\* in the calibration, the raw buffers and the output buffers on return
calibration_apply(c, raw_signals, calibrated_signals, length) ==
    [cal |-> c,
     raw_signals |-> raw_signals,
     calibrated_signals |->
        IF ~c.mic_cal.calibrated
        THEN [i \in Mics |-> Copied(calibrated_signals[i], raw_signals[i], length)]
        ELSE [i \in Mics |->
                CorrectedChannel(calibrated_signals[i], raw_signals[i], length,
                                 c.mic_cal.dc_offset[i], c.mic_cal.gain[i])]]

\* no calibration_* call yet; done are the calls that have returned 0 since
\* calibration_init
NoCalibrationCall == [op |-> "none", ret |-> 0, is_calibrated |-> FALSE, done |-> {}]

-----------------------------------------------------------------------------
(* Inputs *)

\* what the DMA leaves in mic_buffer, per channel: int16 samples
FrameOf(S, v) == [i \in Mics |-> Impulses(S, v)]

MicFrames == { FrameOf({}, 0), FrameOf({140}, -PCM_FULL_SCALE) }

\* per-microphone buffers in which an impulse of amplitude a (a float) lines
\* up, for the steering direction of grid point k, at index p, on the
\* microphones of M
EchoAt(p, a, k, M) ==
    LET shift == DelaySamples(GridAzimuth(k), GridElevation(k))
    IN [i \in Mics |-> IF i \in M THEN Impulses({p - shift[i]}, a * AMP_ONE)
                       ELSE Silence]

\* what the unwritten part of the filtered buffers, malloc'ed and never
\* cleared, may hold
Junk == { FrameOf({}, 0),
          EchoAt(2332, 2000, 210, Mics),
          EchoAt(5000, 20000, 399, Mics),
          EchoAt(50, 3000, 0, Mics),
          EchoAt(4000, 3000, 210, {0}) }

\* the malloc calls that return NULL in sonar_init: none, or any one of them
NullSets == {{}} \cup {{b} : b \in Blocks}

HAL_OK == 0
HAL_ERROR == 1

-----------------------------------------------------------------------------
(* data_logger.c *)

\* the number of slots the ring is checked with; data_logger.h sets
\* LOGGER_MAX_ENTRIES to 1000
LoggerCapacity == 3

LOGGER_MAX_ENTRIES == LoggerCapacity

\* a pointer argument: NULL, or the address of x
NULL == << >>

AddressOf(x) == <<x>>

Deref(p) == p[1]

\* a log_entry_t of all-zero bytes: type 0 is LOG_ENTRY_SONAR_DATA and the
\* pointers of the member are null
ZeroEntry ==
    [type |-> "LOG_ENTRY_SONAR_DATA", timestamp_ms |-> 0,
     data |-> [rx_data |-> "NULL", sample_count |-> 0,
               beamformed_output |-> "NULL", beamformed_length |-> 0]]

\* the data_logger_t after memset(logger, 0, sizeof(data_logger_t))
ZeroLogger ==
    [entries |-> [i \in 0 .. (LOGGER_MAX_ENTRIES - 1) |-> ZeroEntry],
     write_index |-> 0, read_index |-> 0, entry_count |-> 0,
     enabled |-> FALSE, overflow |-> FALSE]

\* logger_init(logger) for a logger that is not NULL
logger_init(lg) ==
    [ret |-> 0, logger |-> [ZeroLogger EXCEPT !.enabled = FALSE, !.overflow = FALSE]]

\* logger_set_enabled(logger, enable)
logger_set_enabled(lg, enable) == [lg EXCEPT !.enabled = enable]

\* the entry is written at write_index, which moves on one slot around the ring
StoreEntry(lg, entry) ==
    [lg EXCEPT !.entries[lg.write_index] = entry,
               !.write_index = (lg.write_index + 1) % LOGGER_MAX_ENTRIES,
               !.entry_count = lg.entry_count + 1]

\* logger_log_sonar(logger, rx_data, sample_count, beamformed, beamformed_length)
\* when HAL_GetTick() returns tick; the entry keeps the pointers, not the samples
logger_log_sonar(lg, rx_data, sample_count, beamformed, beamformed_length, tick) ==
    IF ~lg.enabled
    THEN [ret |-> -1, logger |-> lg]
    ELSE IF lg.entry_count >= LOGGER_MAX_ENTRIES
    THEN [ret |-> -2, logger |-> [lg EXCEPT !.overflow = TRUE]]
    ELSE [ret |-> 0,
          logger |-> StoreEntry(lg,
              [type |-> "LOG_ENTRY_SONAR_DATA", timestamp_ms |-> tick,
               data |-> [rx_data |-> rx_data, sample_count |-> sample_count,
                         beamformed_output |-> beamformed,
                         beamformed_length |-> beamformed_length]])]

\* a logger_log_target that takes the oldest slot when the ring is full
logger_log_target_over_oldest(lg, target, confidence, tick) ==
    IF ~lg.enabled \/ target = NULL
    THEN [ret |-> -1, logger |-> lg]
    ELSE [ret |-> 0,
          logger |-> [lg EXCEPT
              !.entries[lg.write_index] =
                  [type |-> "LOG_ENTRY_TARGET_DETECTION", timestamp_ms |-> tick,
                   data |-> [target |-> Deref(target), confidence |-> confidence]],
              !.write_index = (lg.write_index + 1) % LOGGER_MAX_ENTRIES,
              !.entry_count = IF lg.entry_count >= LOGGER_MAX_ENTRIES
                              THEN lg.entry_count ELSE lg.entry_count + 1,
              !.read_index = IF lg.entry_count >= LOGGER_MAX_ENTRIES
                             THEN (lg.read_index + 1) % LOGGER_MAX_ENTRIES
                             ELSE lg.read_index]]

\* logger_log_target(logger, target, confidence) when HAL_GetTick() returns tick
logger_log_target(lg, target, confidence, tick) ==
    IF ~lg.enabled \/ target = NULL
    THEN [ret |-> -1, logger |-> lg]
    ELSE IF lg.entry_count >= LOGGER_MAX_ENTRIES
    THEN [ret |-> -2, logger |-> [lg EXCEPT !.overflow = TRUE]]
    ELSE [ret |-> 0,
          logger |-> StoreEntry(lg,
              [type |-> "LOG_ENTRY_TARGET_DETECTION", timestamp_ms |-> tick,
               data |-> [target |-> Deref(target), confidence |-> confidence]])]

\* logger_log_guidance(logger, cmd, vehicle_state) when HAL_GetTick() returns tick
logger_log_guidance(lg, cmd, vehicle, tick) ==
    IF ~lg.enabled \/ cmd = NULL \/ vehicle = NULL
    THEN [ret |-> -1, logger |-> lg]
    ELSE IF lg.entry_count >= LOGGER_MAX_ENTRIES
    THEN [ret |-> -2, logger |-> [lg EXCEPT !.overflow = TRUE]]
    ELSE [ret |-> 0,
          logger |-> StoreEntry(lg,
              [type |-> "LOG_ENTRY_GUIDANCE_CMD", timestamp_ms |-> tick,
               data |-> [cmd |-> Deref(cmd), vehicle_state |-> Deref(vehicle)]])]

\* logger_get_count(logger)
logger_get_count(lg) == lg.entry_count

\* a logger_read that hands out the entry and leaves it in the ring
logger_read_in_place(lg, entry) ==
    IF lg.entry_count = 0
    THEN [ret |-> -2, logger |-> lg, entry |-> entry]
    ELSE [ret |-> 0, logger |-> lg, entry |-> lg.entries[lg.read_index]]

\* logger_read(logger, entry) for an entry that is not NULL: entry is what
\* *entry holds before the call
logger_read(lg, entry) ==
    IF lg.entry_count = 0
    THEN [ret |-> -2, logger |-> lg, entry |-> entry]
    ELSE [ret |-> 0,
          logger |-> [lg EXCEPT !.read_index = (lg.read_index + 1) % LOGGER_MAX_ENTRIES,
                                !.entry_count = lg.entry_count - 1],
          entry |-> lg.entries[lg.read_index]]

\* logger_clear(logger)
logger_clear(lg) == [ZeroLogger EXCEPT !.enabled = FALSE, !.overflow = FALSE]

\* the line snprintf makes of the entry: the values printed, the angles
\* multiplied by 57.3 as printed; no line for the other types
LineOf(entry) ==
    IF entry.type = "LOG_ENTRY_TARGET_DETECTION"
    THEN << [text |-> "Target", T |-> entry.timestamp_ms,
             R |-> entry.data.target.range_cm,
             Az |-> entry.data.target.azimuth_rad * 573,
             El |-> entry.data.target.elevation_rad * 573,
             Conf |-> entry.data.confidence] >>
    ELSE IF entry.type = "LOG_ENTRY_GUIDANCE_CMD"
    THEN << [text |-> "Guidance", T |-> entry.timestamp_ms,
             Accel |-> <<entry.data.cmd.accel_x, entry.data.cmd.accel_y,
                         entry.data.cmd.accel_z>>] >>
    ELSE << >>

\* the lines transmitted for the i-th and the later of count entries, the
\* i-th being at read_idx
RECURSIVE ExportFrom(_, _, _, _)
ExportFrom(lg, read_idx, i, count) ==
    IF i >= count
    THEN << >>
    ELSE LineOf(lg.entries[read_idx])
         \o ExportFrom(lg, (read_idx + 1) % LOGGER_MAX_ENTRIES, i + 1, count)

\* logger_export_uart(logger): sent is what HAL_UART_Transmit was given
logger_export_uart(lg) ==
    [ret |-> 0, logger |-> lg,
     sent |-> ExportFrom(lg, lg.read_index, 0, lg.entry_count)]

NoLoggerCall == [op |-> "none", ret |-> 0, entry |-> ZeroEntry, sent |-> << >>,
                 before |-> ZeroLogger, valid_args |-> TRUE, owed |-> << >>,
                 owed_before |-> << >>]

-----------------------------------------------------------------------------
(* main.c *)

\* the call is added to the calls of the cycle and to those made since boot
Did(op, ret, ms) ==
    /\ cycle' = [cycle EXCEPT !.trace = Append(@, [op |-> op, ret |-> ret, at |-> ms]),
                              !.ms = ms]
    /\ boot' = [boot EXCEPT !.ever = @ \cup {op}]

NoCall == [op |-> "none", ret |-> 0, calls |-> 0, detected |-> FALSE, detect_ret |-> 0,
           before |-> NoTarget, max_power |-> 0, best_peak_idx |-> 0, out |-> NoTarget]

Init ==
    /\ pc = "sonar_init"
    /\ sonar_state = ZeroState
    /\ mic_buffer = FrameOf({}, 0)
    /\ dma_running = FALSE
    /\ logger = ZeroLogger
    /\ log_call = NoLoggerCall
    /\ cal = ZeroCalibration
    /\ cal_call = NoCalibrationCall
    /\ vehicle_state = ZeroVehicle
    /\ guidance_cmd = ZeroCmd
    /\ motor_thrust = <<0, 0, 0, 0>>
    /\ cycle = [trace |-> << >>, ms |-> 0, period |-> 0]
    /\ boot = [sonar_init_ret |-> 0, ever |-> {}]
    /\ last = NoCall
    /\ heap = [live |-> {}, overrun |-> FALSE, hot_path |-> {}]
    /\ config = ZeroConfig
    /\ cfg_call = NoConfigCall
    /\ mt = NoMultiTarget

Others == <<config, cfg_call, mt, cal, cal_call, logger, log_call>>

\* main going on to the next initialisation whatever sonar_init returned
AfterSonarInitUnchecked(ret) == "dfsdm_mic_init"

\* "if (sonar_init(&sonar_state) != 0) { Error_Handler(); }"
AfterSonarInit(ret) == IF ret # 0 THEN "Error_Handler" ELSE "dfsdm_mic_init"

SonarInitReturns(r) ==
    /\ sonar_state' = r.state
    /\ heap' = [heap EXCEPT !.live = r.live]
    /\ boot' = [sonar_init_ret |-> r.ret, ever |-> boot.ever \cup {"sonar_init"}]
    /\ pc' = AfterSonarInit(r.ret)

SonarInit ==
    /\ pc = "sonar_init"
    /\ \E null \in NullSets : SonarInitReturns(sonar_init(sonar_state, null))
    /\ UNCHANGED <<mic_buffer, dma_running, vehicle_state, guidance_cmd,
                   motor_thrust, cycle, last, Others>>

\* guidance_init(); memset(&vehicle_state, 0, ...); dfsdm_mic_init(hdfsdm_filter):
\* the HAL decides the status
DfsdmMicInit ==
    /\ pc = "dfsdm_mic_init"
    /\ vehicle_state' = ZeroVehicle
    /\ \E status \in {HAL_OK, HAL_ERROR} :
         pc' = IF status # HAL_OK THEN "Error_Handler" ELSE "ultrasonic_tx_init"
    /\ boot' = [boot EXCEPT !.ever = @ \cup {"guidance_init", "dfsdm_mic_init"}]
    /\ UNCHANGED <<sonar_state, mic_buffer, dma_running, guidance_cmd,
                   motor_thrust, cycle, last, heap, Others>>

UltrasonicTxInit ==
    /\ pc = "ultrasonic_tx_init"
    /\ \E status \in {HAL_OK, HAL_ERROR} :
         pc' = IF status # HAL_OK THEN "Error_Handler" ELSE "ultrasonic_tx_transmit"
    /\ boot' = [boot EXCEPT !.ever = @ \cup {"ultrasonic_tx_init"}]
    /\ UNCHANGED <<sonar_state, mic_buffer, dma_running, vehicle_state, guidance_cmd,
                   motor_thrust, cycle, last, heap, Others>>

\* Error_Handler(): __disable_irq(); while (1) { }
Error_Handler ==
    /\ pc = "Error_Handler"
    /\ UNCHANGED vars

\* ultrasonic_tx_transmit: one HAL_Delay(sample_period_us / 1000) per sample
\* of the chirp, with sample_period_us = 1000000 / SONAR_SAMPLE_RATE
TransmitTime(now) ==
    now + SONAR_CHIRP_SAMPLES
          * (HAL_Delay(0, (1000000 \div SONAR_SAMPLE_RATE) \div 1000))

\* the top of "while (1)": a new cycle starts with the transmission
Transmit ==
    /\ pc = "ultrasonic_tx_transmit"
    /\ cycle' = [trace |-> <<[op |-> "ultrasonic_tx_transmit", ret |-> HAL_OK, at |-> 0]>>,
                 ms |-> TransmitTime(0),
                 period |-> cycle.period]
    /\ boot' = [boot EXCEPT !.ever = @ \cup {"ultrasonic_tx_transmit"}]
    /\ pc' = "echo_window"
    /\ UNCHANGED <<sonar_state, mic_buffer, dma_running, vehicle_state, guidance_cmd,
                   motor_thrust, last, heap, Others>>

\* HAL_Delay(30): wait for the echo window
EchoWindow ==
    /\ pc = "echo_window"
    /\ Did("HAL_Delay", 0, HAL_Delay(cycle.ms, ECHO_WINDOW_MS))
    /\ pc' = "dfsdm_mic_start"
    /\ UNCHANGED <<sonar_state, mic_buffer, dma_running, vehicle_state, guidance_cmd,
                   motor_thrust, last, heap, Others>>

\* dfsdm_mic_start(hdfsdm_filter, mic_buffer, SONAR_MAX_SAMPLES)
DfsdmMicStart ==
    /\ pc = "dfsdm_mic_start"
    /\ dma_running' = TRUE
    /\ Did("dfsdm_mic_start", HAL_OK, cycle.ms)
    /\ pc' = "dfsdm_mic_stop"
    /\ UNCHANGED <<sonar_state, mic_buffer, vehicle_state, guidance_cmd,
                   motor_thrust, last, heap, Others>>

\* HAL_Delay(30); dfsdm_mic_stop(hdfsdm_filter): the DMA has filled mic_buffer
DfsdmMicStop ==
    /\ pc = "dfsdm_mic_stop"
    /\ \E frame \in MicFrames : mic_buffer' = frame
    /\ dma_running' = FALSE
    /\ Did("dfsdm_mic_stop", HAL_OK, HAL_Delay(cycle.ms, ACQUISITION_MS))
    /\ pc' = "dfsdm_convert_pdm_to_pcm"
    /\ UNCHANGED <<sonar_state, vehicle_state, guidance_cmd,
                   motor_thrust, last, heap, Others>>

\* the conversion of the first channel alone
ConvertFirstChannel ==
    /\ pc = "dfsdm_convert_pdm_to_pcm"
    /\ sonar_state' = [sonar_state EXCEPT
                         !.rx_buffer[0] =
                             dfsdm_convert_pdm_to_pcm(mic_buffer[0], SONAR_MAX_SAMPLES),
                         !.sample_count = SONAR_MAX_SAMPLES]
    /\ Did("dfsdm_convert_pdm_to_pcm", 0, cycle.ms)
    /\ pc' = "sonar_detect_target"
    /\ UNCHANGED <<mic_buffer, dma_running, vehicle_state, guidance_cmd,
                   motor_thrust, last, heap, Others>>

\* the conversion loop over the channels; sonar_state.sample_count = SONAR_MAX_SAMPLES
Convert ==
    /\ pc = "dfsdm_convert_pdm_to_pcm"
    /\ sonar_state' = [sonar_state EXCEPT
                         !.rx_buffer = [i \in Mics |->
                             dfsdm_convert_pdm_to_pcm(mic_buffer[i], SONAR_MAX_SAMPLES)],
                         !.sample_count = SONAR_MAX_SAMPLES]
    /\ Did("dfsdm_convert_pdm_to_pcm", 0, cycle.ms)
    /\ pc' = "sonar_detect_target"
    /\ UNCHANGED <<mic_buffer, dma_running, vehicle_state, guidance_cmd,
                   motor_thrust, last, heap, Others>>

\* main going on to the guidance law whatever sonar_detect_target returned
AfterDetectUnchecked(ret) == "guidance_compute"

\* "if (sonar_detect_target(&sonar_state) == 0) {"
AfterDetect(ret) == IF ret = 0 THEN "sonar_get_target" ELSE "cycle_delay"

\* "if (sonar_get_target(&sonar_state, &target) == 0) {"
AfterGetTarget(ret) == IF ret = 0 THEN "guidance_compute" ELSE "cycle_delay"

\* "if (guidance_compute(&vehicle_state, &target, &guidance_cmd) == 0) {"
AfterGuidance(ret) == IF ret = 0 THEN "guidance_to_motors" ELSE "cycle_delay"

\* the record of a sonar_detect_target call
Detected(r, before) ==
    [op |-> "sonar_detect_target", ret |-> r.ret, calls |-> last.calls,
     detected |-> TRUE, detect_ret |-> r.ret,
     before |-> before, max_power |-> r.peak.max_power,
     best_peak_idx |-> r.peak.best_peak_idx, out |-> last.out]

\* the record of a sonar_get_target call
Got(r) ==
    [last EXCEPT !.op = "sonar_get_target", !.ret = r.ret, !.out = r.target]

DetectReturns(r) ==
    /\ sonar_state' = r.state
    /\ heap' = [heap EXCEPT !.overrun = @ \/ r.overrun]
    /\ last' = Detected(r, sonar_state.target)
    /\ Did("sonar_detect_target", r.ret, cycle.ms)
    /\ pc' = AfterDetect(r.ret)

DetectTarget ==
    /\ pc = "sonar_detect_target"
    /\ \E junk \in Junk : DetectReturns(sonar_detect_target(sonar_state, junk))
    /\ UNCHANGED <<mic_buffer, dma_running, vehicle_state, guidance_cmd,
                   motor_thrust, Others>>

GetReturns(r) ==
    /\ last' = Got(r)
    /\ Did("sonar_get_target", r.ret, cycle.ms)
    /\ pc' = AfterGetTarget(r.ret)

\* the local target_info_t target of the cycle is last.out
GetTarget ==
    /\ pc = "sonar_get_target"
    /\ GetReturns(sonar_get_target(sonar_state, NoTarget))
    /\ UNCHANGED <<sonar_state, mic_buffer, dma_running, vehicle_state, guidance_cmd,
                   motor_thrust, heap, Others>>

GuidanceReturns(r) ==
    /\ guidance_cmd' = r.cmd
    /\ Did("guidance_compute", r.ret, cycle.ms)
    /\ pc' = AfterGuidance(r.ret)

GuidanceCompute ==
    /\ pc = "guidance_compute"
    /\ GuidanceReturns(guidance_compute(vehicle_state, last.out, guidance_cmd))
    /\ UNCHANGED <<sonar_state, mic_buffer, dma_running, vehicle_state,
                   motor_thrust, last, heap, Others>>

GuidanceToMotors ==
    /\ pc = "guidance_to_motors"
    /\ motor_thrust' = guidance_to_motors(guidance_cmd)
    /\ Did("guidance_to_motors", 0, cycle.ms)
    /\ pc' = "cycle_delay"
    /\ UNCHANGED <<sonar_state, mic_buffer, dma_running, vehicle_state,
                   guidance_cmd, last, heap, Others>>

\* HAL_Delay(10) at the bottom of the loop; the cycle has taken cycle.period
CycleDelay ==
    /\ pc = "cycle_delay"
    /\ cycle' = [trace |-> Append(cycle.trace, [op |-> "HAL_Delay", ret |-> 0,
                                                at |-> HAL_Delay(cycle.ms, CYCLE_DELAY_MS)]),
                 ms |-> HAL_Delay(cycle.ms, CYCLE_DELAY_MS),
                 period |-> HAL_Delay(cycle.ms, CYCLE_DELAY_MS)]
    /\ pc' = "ultrasonic_tx_transmit"
    /\ UNCHANGED <<sonar_state, mic_buffer, dma_running, vehicle_state, guidance_cmd,
                   motor_thrust, boot, last, heap, Others>>

Next ==
    \/ SonarInit
    \/ DfsdmMicInit
    \/ UltrasonicTxInit
    \/ Error_Handler
    \/ Transmit
    \/ EchoWindow
    \/ DfsdmMicStart
    \/ DfsdmMicStop
    \/ Convert
    \/ DetectTarget
    \/ GetTarget
    \/ GuidanceCompute
    \/ GuidanceToMotors
    \/ CycleDelay

Spec == Init /\ [][Next]_vars

-----------------------------------------------------------------------------
(* The sonar module driven through its interface (sonar.h): after a           *)
(* successful sonar_init the caller fills rx_buffer and sample_count, and     *)
(* calls sonar_detect_target and sonar_get_target in any order.               *)

\* what a caller may put into rx_buffer: floats of any size
RxFrames == { FrameOf({}, 0),
              EchoAt(100, 2000, 210, Mics),
              EchoAt(100, 600, 210, Mics) }

\* what the unwritten part of the filtered buffers holds in these runs
ApiJunk == { FrameOf({}, 0), EchoAt(50, 3000, 0, Mics) }

\* the number of sonar_detect_target and sonar_get_target calls followed
MaxCalls == 3

InitApi ==
    /\ pc = "api"
    /\ sonar_state = sonar_init(ZeroState, {}).state
    /\ mic_buffer = FrameOf({}, 0)
    /\ dma_running = FALSE
    /\ logger = ZeroLogger
    /\ log_call = NoLoggerCall
    /\ cal = ZeroCalibration
    /\ cal_call = NoCalibrationCall
    /\ vehicle_state = ZeroVehicle
    /\ guidance_cmd = ZeroCmd
    /\ motor_thrust = <<0, 0, 0, 0>>
    /\ cycle = [trace |-> << >>, ms |-> 0, period |-> 0]
    /\ boot = [sonar_init_ret |-> 0, ever |-> {"sonar_init"}]
    /\ last = NoCall
    /\ heap = [live |-> Blocks, overrun |-> FALSE, hot_path |-> {}]
    /\ config = ZeroConfig
    /\ cfg_call = NoConfigCall
    /\ mt = NoMultiTarget

ApiRest == <<pc, mic_buffer, dma_running, vehicle_state, guidance_cmd, motor_thrust,
             cycle, boot, Others>>

\* the caller stores a frame of SONAR_MAX_SAMPLES samples per channel
ApiAcquire ==
    /\ pc = "api"
    /\ \E frame \in RxFrames :
          sonar_state' = [sonar_state EXCEPT !.rx_buffer = frame,
                                             !.sample_count = SONAR_MAX_SAMPLES]
    /\ UNCHANGED <<last, heap, ApiRest>>

ApiDetectReturns(r) ==
    /\ sonar_state' = r.state
    /\ heap' = [heap EXCEPT !.overrun = @ \/ r.overrun]
    /\ last' = [Detected(r, sonar_state.target) EXCEPT !.calls = @ + 1]

ApiDetectTarget ==
    /\ pc = "api"
    /\ last.calls < MaxCalls
    /\ sonar_state.sample_count > 0
    /\ \E junk \in ApiJunk : ApiDetectReturns(sonar_detect_target(sonar_state, junk))
    /\ UNCHANGED ApiRest

\* sonar_get_target(&state, &target): last.out is the caller's target
ApiGetTarget ==
    /\ pc = "api"
    /\ last.calls < MaxCalls
    /\ last' = [Got(sonar_get_target(sonar_state, last.out)) EXCEPT !.calls = @ + 1]
    /\ UNCHANGED <<sonar_state, heap, ApiRest>>

NextApi ==
    \/ ApiAcquire
    \/ ApiDetectTarget
    \/ ApiGetTarget

SpecApi == InitApi /\ [][NextApi]_vars

-----------------------------------------------------------------------------
(* The multi-target detector run once per cycle on a beamformed output, as   *)
(* the integration guide has it, after the buffers have been allocated.      *)

\* the length of the beamformed outputs handed to the detector
MtLength == 100

\* beamformed outputs: silence, spikes of amplitude 1.0 at one, two or
\* seven places, a plateau, and a spike of 2.0 next to one of 1.0
MtSignals ==
    {Impulses(P, 1) : P \in {{}, {5}, {5, 20}, {20, 21}, {3, 13, 23, 33, 43, 53, 63}}}
    \cup {Impulses({20}, 1) @@ Impulses({21}, 2)}

MtRates == {SONAR_SAMPLE_RATE, 1000}

InitMulti ==
    /\ pc = "beamformed"
    /\ sonar_state = sonar_init(ZeroState, {}).state
    /\ mic_buffer = FrameOf({}, 0)
    /\ dma_running = FALSE
    /\ logger = ZeroLogger
    /\ log_call = NoLoggerCall
    /\ cal = ZeroCalibration
    /\ cal_call = NoCalibrationCall
    /\ vehicle_state = ZeroVehicle
    /\ guidance_cmd = ZeroCmd
    /\ motor_thrust = <<0, 0, 0, 0>>
    /\ cycle = [trace |-> << >>, ms |-> 0, period |-> 0]
    /\ boot = [sonar_init_ret |-> 0, ever |-> {"sonar_init"}]
    /\ last = NoCall
    /\ heap = [live |-> Blocks, overrun |-> FALSE, hot_path |-> {}]
    /\ config = ZeroConfig
    /\ cfg_call = NoConfigCall
    /\ mt = NoMultiTarget

MultiRest == <<sonar_state, mic_buffer, dma_running, vehicle_state, guidance_cmd,
               motor_thrust, cycle, boot, last, config, cfg_call, cal, cal_call,
               logger, log_call>>

\* the cycle's beamformed output, its length and the sample rate
MtBeamformed ==
    /\ pc = "beamformed"
    /\ \E signal \in MtSignals, length \in {0, MtLength}, sample_rate \in MtRates :
          mt' = [mt EXCEPT !.signal = signal, !.length = length,
                           !.sample_rate = sample_rate, !.called = FALSE]
    /\ pc' = "signal_detect_multi_target"
    /\ UNCHANGED <<heap, MultiRest>>

MultiTargetReturns(r) ==
    /\ mt' = [mt EXCEPT !.called = TRUE, !.ret = r.ret, !.result = r.result,
                       !.before = mt.result]
    /\ heap' = [heap EXCEPT !.hot_path = @ \cup r.allocator]

\* signal_detect_multi_target(beamformed, length, sample_rate, &multi_target)
MultiTarget ==
    /\ pc = "signal_detect_multi_target"
    /\ \E null \in BOOLEAN :
          MultiTargetReturns(signal_detect_multi_target(mt.signal, mt.length,
                                                        mt.sample_rate, mt.result, null))
    /\ pc' = "beamformed"
    /\ UNCHANGED MultiRest

NextMulti ==
    \/ MtBeamformed
    \/ MultiTarget

SpecMulti == InitMulti /\ [][NextMulti]_vars

\* C9: once the buffers have been allocated, they stay the blocks of the
\* heap and no call of the cycle has called an allocator function.
C9_NoHotPathAllocation ==
    /\ heap.live = Blocks
    /\ heap.hot_path = {}

-----------------------------------------------------------------------------
(* signal_cluster_detections called on a list of peaks, in increasing order *)
(* as signal_find_peaks stores them.                                        *)

\* the sample indices the peaks are taken from
PeakPlaces == {100, 200, 300, 400, 700, 1500}

\* the peak lists handed to signal_cluster_detections
PeakLists == {Smallest(P, Cardinality(P)) : P \in (SUBSET PeakPlaces) \ {{}}}

ClusterRates == {SONAR_SAMPLE_RATE, SONAR_SAMPLE_RATE \div 2}

InitCluster ==
    /\ pc = "call_signal_cluster_detections"
    /\ sonar_state = ZeroState
    /\ mic_buffer = FrameOf({}, 0)
    /\ dma_running = FALSE
    /\ logger = ZeroLogger
    /\ log_call = NoLoggerCall
    /\ cal = ZeroCalibration
    /\ cal_call = NoCalibrationCall
    /\ vehicle_state = ZeroVehicle
    /\ guidance_cmd = ZeroCmd
    /\ motor_thrust = <<0, 0, 0, 0>>
    /\ cycle = [trace |-> << >>, ms |-> 0, period |-> 0]
    /\ boot = [sonar_init_ret |-> 0, ever |-> {}]
    /\ last = NoCall
    /\ heap = [live |-> {}, overrun |-> FALSE, hot_path |-> {}]
    /\ config = ZeroConfig
    /\ cfg_call = NoConfigCall
    /\ \E peaks \in PeakLists, sample_rate \in ClusterRates :
          mt = [peaks |-> peaks, sample_rate |-> sample_rate, called |-> FALSE,
                ret |-> 0, clusters |-> << >>]

\* signal_cluster_detections has returned r
ClusterCallReturns(r) ==
    /\ mt' = [mt EXCEPT !.called = TRUE, !.ret = r.ret, !.clusters = r.clusters]
    /\ heap' = [heap EXCEPT !.hot_path = @ \cup r.allocator]

\* signal_cluster_detections(peaks, num_peaks, signal, length, sample_rate,
\* clusters, MAX_TARGETS, &num_clusters) on a signal of amplitude 1.0 at the peaks
ClusterCall ==
    /\ pc = "call_signal_cluster_detections"
    /\ \E null \in BOOLEAN :
          ClusterCallReturns(signal_cluster_detections(mt.peaks, Impulses(PeakPlaces, 1),
                                                       mt.sample_rate, MAX_TARGETS, null))
    /\ pc' = "called"
    /\ UNCHANGED MultiRest

NextCluster == ClusterCall

SpecCluster == InitCluster /\ [][NextCluster]_vars

\* the peaks of the list
PeaksOf(peaks) == {peaks[n] : n \in 1 .. Len(peaks)}

\* the ranges of the peaks p and q differ by less than, or by more than,
\* MIN_TARGET_SEPARATION_CM: |p - q| * SPEED_OF_SOUND * 100 / (2 * sample_rate)
RangesCloser(p, q, sample_rate) ==
    SPEED_OF_SOUND * 100 * Abs(p - q) < MIN_TARGET_SEPARATION_CM * 2 * sample_rate

RangesFarther(p, q, sample_rate) ==
    SPEED_OF_SOUND * 100 * Abs(p - q) > MIN_TARGET_SEPARATION_CM * 2 * sample_rate

\* the peaks p and q are in one cluster
Together(p, q, clusters) ==
    \E n \in 1 .. Len(clusters) : {p, q} \subseteq clusters[n].peaks

-----------------------------------------------------------------------------
(* The multi-target detector: properties *)

\* signal_find_peaks finds no peak in the signal
NoPeak(signal, length) ==
    \A i \in 1 .. (length - 2) :
        ~IsPeak(signal, i, signal_adaptive_threshold(signal, length).threshold)

-----------------------------------------------------------------------------
(* The configuration store driven through its interface (config.h):         *)
(* config_init first, then any of the calls in any order.                   *)

\* the sonar_config_t values handed to config_set_sonar
SonarConfigs ==
    {[DefaultSonarConfig EXCEPT !.sample_rate = sr, !.chirp_duration_ms = d,
                                !.chirp_f0 = f[1], !.chirp_f1 = f[2],
                                !.min_range_cm = r[1], !.max_range_cm = r[2]] :
        sr \in {99999, 100000, 500001},
        d \in {0, 10, 11},
        f \in {<<38000, 42000>>, <<42000, 42000>>},
        r \in {<<10, 500>>, <<500, 500>>}}

\* the guidance_config_t values handed to config_set_guidance
GuidanceConfigs ==
    {[DefaultGuidanceConfig EXCEPT !.navigation_constant = n, !.max_acceleration = a] :
        n \in {Float(99), Float(100), Float(1001), NaN},
        a \in {Float(0), Float(1), Float(981), NaN}}

InitConfig ==
    /\ pc = "config"
    /\ sonar_state = ZeroState
    /\ mic_buffer = FrameOf({}, 0)
    /\ dma_running = FALSE
    /\ logger = ZeroLogger
    /\ log_call = NoLoggerCall
    /\ cal = ZeroCalibration
    /\ cal_call = NoCalibrationCall
    /\ vehicle_state = ZeroVehicle
    /\ guidance_cmd = ZeroCmd
    /\ motor_thrust = <<0, 0, 0, 0>>
    /\ cycle = [trace |-> << >>, ms |-> 0, period |-> 0]
    /\ boot = [sonar_init_ret |-> 0, ever |-> {}]
    /\ last = NoCall
    /\ heap = [live |-> {}, overrun |-> FALSE, hot_path |-> {}]
    /\ config = ZeroConfig
    /\ cfg_call = NoConfigCall
    /\ mt = NoMultiTarget

ConfigRest == <<pc, sonar_state, mic_buffer, dma_running, vehicle_state, guidance_cmd,
                motor_thrust, cycle, boot, last, heap, mt, cal, cal_call,
                logger, log_call>>

\* a config_* call that stores r.config and returns r.ret
ConfigReturns(op, r) ==
    /\ config' = r.config
    /\ cfg_call' = [op |-> op, ret |-> r.ret, before |-> config]
    /\ UNCHANGED ConfigRest

ConfigInit == ConfigReturns("config_init", config_init(config))

ConfigLoad ==
    /\ cfg_call.op # "none"
    /\ ConfigReturns("config_load", config_load(config))

ConfigReset ==
    /\ cfg_call.op # "none"
    /\ ConfigReturns("config_reset", config_reset(config))

ConfigSave ==
    /\ cfg_call.op # "none"
    /\ ConfigReturns("config_save", [ret |-> config_save(config), config |-> config])

ConfigValidate ==
    /\ cfg_call.op # "none"
    /\ ConfigReturns("config_validate", [ret |-> config_validate(config), config |-> config])

ConfigSetSonar ==
    /\ cfg_call.op # "none"
    /\ \E sonar_config \in SonarConfigs :
          ConfigReturns("config_set_sonar", config_set_sonar(config, sonar_config))

ConfigSetGuidance ==
    /\ cfg_call.op # "none"
    /\ \E guidance_config \in GuidanceConfigs :
          ConfigReturns("config_set_guidance", config_set_guidance(config, guidance_config))

NextConfig ==
    \/ ConfigInit
    \/ ConfigLoad
    \/ ConfigReset
    \/ ConfigSave
    \/ ConfigValidate
    \/ ConfigSetSonar
    \/ ConfigSetGuidance

SpecConfig == InitConfig /\ [][NextConfig]_vars

\* C10: after config_init and any further calls the stored configuration
\* passes config_validate, and a config_set_sonar or config_set_guidance that
\* returned an error has left the stored configuration as it was.
C10_StoredConfigValid ==
    cfg_call.op # "none" =>
        /\ config_validate(config) = 0
        /\ (cfg_call.op \in {"config_set_sonar", "config_set_guidance"} /\ cfg_call.ret # 0)
              => config = cfg_call.before

-----------------------------------------------------------------------------
(* The guidance law driven through its interface (guidance.h): one call of  *)
(* guidance_compute on a vehicle state, a target and the caller's command,  *)
(* then one call of guidance_to_motors.                                     *)

\* a valid target_info_t with its peak at sample idx
TargetAt(idx, azimuth, elevation) ==
    [range_cm |-> RangeCm(idx), azimuth_rad |-> azimuth, elevation_rad |-> elevation,
     confidence |-> CONF_ONE, valid |-> TRUE]

\* the target_info_t values handed to guidance_compute
Targets ==
    { TargetAt(2332, 0, 0), TargetAt(2332, 10, 5), TargetAt(1166, -20, -10),
      NoTarget, [TargetAt(2332, 0, 0) EXCEPT !.valid = FALSE] }

\* a vehicle_state_t: position in mm, velocity in mm/s
VehicleAt(p, v) ==
    [pos_x |-> p[1], pos_y |-> p[2], pos_z |-> p[3],
     vel_x |-> v[1], vel_y |-> v[2], vel_z |-> v[3]]

\* the vehicle_state_t values: far from the targets at up to 5 m/s, and
\* at and around the first target at up to 0.72 m/s
Vehicles ==
    { VehicleAt(<< 0, 0, 0 >>, v) :
        v \in { << 0, 0, 0 >>, << 3000, 4000, 0 >>, << 100, 0, 0 >>,
                << -2000, 500, 1000 >> } }
    \cup
    { VehicleAt(p, v) :
        p \in { << 1999, 0, 0 >>, << 1950, 0, 0 >>, << 1949, 0, 0 >>,
                << 1999, 30, 40 >>, << 1999, 30, 39 >> },
        v \in { << 0, 0, 0 >>, << 30, 40, 0 >>, << 400, 600, 0 >> } }

\* the guidance_cmd_t the caller holds before the call
PriorCmds == { ZeroCmd, [accel_x |-> 100, accel_y |-> -200, accel_z |-> 300,
                         intercept |-> TRUE] }

\* the guidance_cmd_t values handed to guidance_to_motors besides the
\* command just computed
MixCmds ==
    { [accel_x |-> a[1], accel_y |-> a[2], accel_z |-> a[3], intercept |-> FALSE] :
        a \in { << 0, 0, 0 >>, << 500, -300, 200 >>, << 9810, 0, 0 >>,
                << -3000, -3000, -3000 >>, << 1000, 1000, 2000 >> } }

InitGuidance ==
    /\ pc = "call_guidance_compute"
    /\ sonar_state = ZeroState
    /\ mic_buffer = FrameOf({}, 0)
    /\ dma_running = FALSE
    /\ logger = ZeroLogger
    /\ log_call = NoLoggerCall
    /\ cal = ZeroCalibration
    /\ cal_call = NoCalibrationCall
    /\ vehicle_state \in Vehicles
    /\ guidance_cmd \in PriorCmds
    /\ motor_thrust = <<0, 0, 0, 0>>
    /\ cycle = [trace |-> << >>, ms |-> 0, period |-> 0]
    /\ boot = [sonar_init_ret |-> 0, ever |-> {}]
    /\ \E target \in Targets :
          last = [op |-> "none", ret |-> 0, target |-> target, before |-> guidance_cmd,
                  accel |-> << 0, 0, 0 >>, accel_mag |-> 0, mixed |-> ZeroCmd]
    /\ heap = [live |-> {}, overrun |-> FALSE, hot_path |-> {}]
    /\ config = ZeroConfig
    /\ cfg_call = NoConfigCall
    /\ mt = NoMultiTarget

GuidanceRest == <<sonar_state, mic_buffer, dma_running, vehicle_state, cycle, boot, heap,
                  Others>>

\* guidance_compute has returned r
GuidanceCallReturns(r) ==
    /\ guidance_cmd' = r.cmd
    /\ last' = [last EXCEPT !.op = "guidance_compute", !.ret = r.ret,
                            !.before = guidance_cmd, !.accel = r.accel,
                            !.accel_mag = r.accel_mag]
    /\ pc' = "call_guidance_to_motors"
    /\ UNCHANGED <<motor_thrust, GuidanceRest>>

GuidanceCall ==
    /\ pc = "call_guidance_compute"
    /\ GuidanceCallReturns(guidance_compute(vehicle_state, last.target, guidance_cmd))

MotorsCall ==
    /\ pc = "call_guidance_to_motors"
    /\ \E cmd \in {guidance_cmd} \cup MixCmds :
          /\ motor_thrust' = guidance_to_motors(cmd)
          /\ last' = [last EXCEPT !.op = "guidance_to_motors", !.ret = 0, !.mixed = cmd]
    /\ pc' = "called"
    /\ UNCHANGED <<guidance_cmd, GuidanceRest>>

NextGuidance ==
    \/ GuidanceCall
    \/ MotorsCall

SpecGuidance == InitGuidance /\ [][NextGuidance]_vars

\* the state right after guidance_compute has returned
GuidanceComputed == pc = "call_guidance_to_motors" /\ last.op = "guidance_compute"

\* the squared distance between a position and the vehicle, mm^2
DistSq(pos, vehicle) ==
    (pos[1] - vehicle.pos_x) * (pos[1] - vehicle.pos_x)
    + (pos[2] - vehicle.pos_y) * (pos[2] - vehicle.pos_y)
    + (pos[3] - vehicle.pos_z) * (pos[3] - vehicle.pos_z)

\* the squared magnitude of an acceleration vector
MagSq(a) == a[1] * a[1] + a[2] * a[2] + a[3] * a[3]

\* the acceleration of a command, as a vector
AccelOf(cmd) == << cmd.accel_x, cmd.accel_y, cmd.accel_z >>

\* the command is an intercept with zero acceleration exactly when the
\* squared distance d2 is below the square of the minimum intercept range
InterceptExactly(d2, cmd) ==
    IF d2 < (GUIDANCE_MIN_RANGE_CM * 10) * (GUIDANCE_MIN_RANGE_CM * 10)
    THEN cmd.intercept /\ AccelOf(cmd) = << 0, 0, 0 >>
    ELSE ~cmd.intercept

\* C12: for a valid target guidance_compute succeeds and sets intercept with
\* zero acceleration exactly when the target position is closer to the
\* vehicle than the minimum intercept range, and clears intercept otherwise.
C12_InterceptExactlyInRange ==
    (GuidanceComputed /\ last.target.valid) =>
        /\ last.ret = 0
        /\ InterceptExactly(DistSq(PositionOf(last.target), vehicle_state), guidance_cmd)

\* the vehicle is at the target position, the caller's command was not
\* zero, and the call has made it an intercept with zero acceleration
C12_CoincidentTarget ==
    /\ GuidanceComputed /\ last.target.valid
    /\ DistSq(PositionOf(last.target), vehicle_state) = 0
    /\ last.before # ZeroCmd
    /\ guidance_cmd = [accel_x |-> 0, accel_y |-> 0, accel_z |-> 0, intercept |-> TRUE]

\* out has the direction of a, up to the rounding of its components
SameDirection(out, a) ==
    \A i, j \in 1 .. 3 :
        /\ out[i] * a[i] >= 0
        /\ Abs(out[i] * a[j] - out[j] * a[i]) <= Abs(a[i]) + Abs(a[j])

\* out is a limited to the magnitude GUIDANCE_MAX_ACCEL: a itself when a
\* is within the limit, a rescaled to the limit (up to one unit of rounding
\* per component) when it is beyond
LimitedTo(out, a) ==
    /\ MagSq(out) <= (GUIDANCE_MAX_ACCEL + 1) * (GUIDANCE_MAX_ACCEL + 1)
    /\ MagSq(a) <= GUIDANCE_MAX_ACCEL * GUIDANCE_MAX_ACCEL => out = a
    /\ MagSq(a) >= (GUIDANCE_MAX_ACCEL + 1) * (GUIDANCE_MAX_ACCEL + 1) =>
          /\ MagSq(out) >= (GUIDANCE_MAX_ACCEL - 2) * (GUIDANCE_MAX_ACCEL - 2)
          /\ SameDirection(out, a)

\* C13: the acceleration of a successful guidance_compute is the
\* proportional-navigation acceleration limited to GUIDANCE_MAX_ACCEL: equal
\* to it within the limit, rescaled to the limit with its direction beyond.
C13_AccelerationLimited ==
    (GuidanceComputed /\ last.ret = 0 /\ ~guidance_cmd.intercept) =>
        LimitedTo(AccelOf(guidance_cmd), last.accel)

\* an acceleration beyond the limit has been rescaled
C13_Rescaled ==
    /\ GuidanceComputed /\ last.ret = 0 /\ ~guidance_cmd.intercept
    /\ last.accel_mag > GUIDANCE_MAX_ACCEL
    /\ AccelOf(guidance_cmd) # last.accel

\* C14: guidance_compute on a target that is not valid returns no error
\* status and leaves the caller's command as it was.
C14_AbsenceIsNoError ==
    (GuidanceComputed /\ ~last.target.valid) =>
        /\ last.ret >= 0
        /\ guidance_cmd = last.before

\* the X-configuration mix of a command, clamped to [0, 1]
ClampedMix(cmd, sx, sy) ==
    Max2(0, Min2(THRUST_ONE,
                 THRUST_ONE \div 2 + sx * cmd.accel_x + sy * cmd.accel_y + cmd.accel_z))

\* C15: guidance_to_motors writes, on each channel, the X-configuration mix
\* of the command clamped to [0, 1]; a zero acceleration gives the base
\* hover thrust on all four channels.
C15_ThrustClampedMix ==
    last.op = "guidance_to_motors" =>
        /\ \A i \in 1 .. 4 : motor_thrust[i] \in 0 .. THRUST_ONE
        /\ motor_thrust = << ClampedMix(last.mixed, 1, 1), ClampedMix(last.mixed, -1, 1),
                             ClampedMix(last.mixed, 1, -1), ClampedMix(last.mixed, -1, -1) >>
        /\ AccelOf(last.mixed) = << 0, 0, 0 >> =>
              \A i \in 1 .. 4 : 2 * motor_thrust[i] = THRUST_ONE

\* a command whose mix goes beyond 1 on one channel and is within on another
C15_ClampedAtFullThrust ==
    /\ last.op = "guidance_to_motors"
    /\ motor_thrust[1] = THRUST_ONE
    /\ THRUST_ONE \div 2 + last.mixed.accel_x + last.mixed.accel_y + last.mixed.accel_z
         > THRUST_ONE
    /\ \E i \in 2 .. 4 : motor_thrust[i] \in 1 .. (THRUST_ONE - 1)

-----------------------------------------------------------------------------
(* The calibration driven through its interface (calibration.h):            *)
(* calibration_init first, then any of the calls in any order.              *)

\* the lengths of the reference signal
ReferenceLengths == {0, 1000}

\* the temperatures handed to calibration_set_temperature, in degrees Celsius
Temperatures == {-600, -547, -546, -273, -40, -20, 0, 10, 20, 25, 30, 40, 50, 60, 85}

InitCalibration ==
    /\ pc = "calibration_init"
    /\ sonar_state = ZeroState
    /\ mic_buffer = FrameOf({}, 0)
    /\ dma_running = FALSE
    /\ logger = ZeroLogger
    /\ log_call = NoLoggerCall
    /\ vehicle_state = ZeroVehicle
    /\ guidance_cmd = ZeroCmd
    /\ motor_thrust = <<0, 0, 0, 0>>
    /\ cycle = [trace |-> << >>, ms |-> 0, period |-> 0]
    /\ boot = [sonar_init_ret |-> 0, ever |-> {}]
    /\ last = NoCall
    /\ heap = [live |-> {}, overrun |-> FALSE, hot_path |-> {}]
    /\ config = ZeroConfig
    /\ cfg_call = NoConfigCall
    /\ mt = NoMultiTarget
    /\ cal = ZeroCalibration
    /\ cal_call = NoCalibrationCall

CalibrationRest == <<sonar_state, mic_buffer, dma_running, vehicle_state, guidance_cmd,
                     motor_thrust, cycle, boot, last, heap, config, cfg_call, mt,
                     logger, log_call>>

\* the calls that have returned 0 since calibration_init, op included if r.ret = 0
DoneWith(op, ret) == IF ret = 0 THEN cal_call.done \cup {op} ELSE cal_call.done

\* a calibration_* call that stores r.cal and returns r.ret
CalibrationReturns(op, r) ==
    /\ cal' = r.cal
    /\ cal_call' = [op |-> op, ret |-> r.ret, is_calibrated |-> cal_call.is_calibrated,
                    done |-> DoneWith(op, r.ret)]

CalInit ==
    /\ pc \in {"calibration_init", "calibration"}
    /\ cal' = calibration_init(cal).cal
    /\ cal_call' = [op |-> "calibration_init", ret |-> calibration_init(cal).ret,
                    is_calibrated |-> FALSE, done |-> {}]
    /\ pc' = "calibration"
    /\ UNCHANGED CalibrationRest

CalCalibrateMics ==
    /\ pc = "calibration"
    /\ \E reference \in BOOLEAN, length \in ReferenceLengths :
          CalibrationReturns("calibration_calibrate_mics",
                             calibration_calibrate_mics(cal, reference, length))
    /\ UNCHANGED <<pc, CalibrationRest>>

CalSetTemperature ==
    /\ pc = "calibration"
    /\ \E temperature \in Temperatures :
          CalibrationReturns("calibration_set_temperature",
                             calibration_set_temperature(cal, temperature))
    /\ UNCHANGED <<pc, CalibrationRest>>

CalIsCalibrated ==
    /\ pc = "calibration"
    /\ cal_call' = [cal_call EXCEPT !.op = "calibration_is_calibrated", !.ret = 0,
                                    !.is_calibrated = calibration_is_calibrated(cal)]
    /\ UNCHANGED <<pc, cal, CalibrationRest>>

NextCalibration ==
    \/ CalInit
    \/ CalCalibrateMics
    \/ CalSetTemperature
    \/ CalIsCalibrated

SpecCalibration == InitCalibration /\ [][NextCalibration]_vars

\* C19: once calibration_init has been called, after any calls of
\* calibration_calibrate_mics and calibration_set_temperature every gain of
\* the profile is above 0.0 and so is the speed of sound.
C19_GainsAndSpeedPositive ==
    cal_call.op # "none" =>
        /\ \A i \in Mics : cal.mic_cal.gain[i] > 0
        /\ cal.speed_of_sound > 0

\* C20: calibration_is_calibrated returns true once calibration_calibrate_mics
\* and calibration_set_temperature have succeeded after calibration_init, and
\* false as long as calibration_calibrate_mics has not succeeded.
C20_CalibratedAfterPass ==
    cal_call.op = "calibration_is_calibrated" =>
        /\ {"calibration_calibrate_mics", "calibration_set_temperature"} \subseteq cal_call.done
              => cal_call.is_calibrated
        /\ "calibration_calibrate_mics" \notin cal_call.done => ~cal_call.is_calibrated

-----------------------------------------------------------------------------
(* calibration_apply called on a calibration profile, raw buffers and       *)
(* output buffers of ApplyCapacity samples per channel.                     *)

ApplyCapacity == 3

\* a buffer of ApplyCapacity samples: a, b, c and over again
Samples(a, b, c) == [j \in 0 .. (ApplyCapacity - 1) |-> <<a, b, c>>[(j % 3) + 1]]

\* gain[NUM_MICS] and dc_offset[NUM_MICS]
PerMic(a, b, c, d) == [i \in Mics |-> <<a, b, c, d>>[i + 1]]

Gains == {PerMic(AMP_ONE, AMP_ONE, AMP_ONE, AMP_ONE),
          PerMic(AMP_ONE \div 2, 2 * AMP_ONE, AMP_ONE, -AMP_ONE),
          PerMic(0, 3 * AMP_ONE, AMP_ONE \div 2, 2 * AMP_ONE)}

DcOffsets == {PerMic(0, 0, 0, 0), PerMic(8, -16, 0, 32)}

\* the calibration profiles: calibration_init's values with the profile of
\* the microphones set
Profiles ==
    {[calibration_init(ZeroCalibration).cal EXCEPT
         !.mic_cal = [gain |-> gain, phase_offset |-> PerMic(0, 0, 0, 0),
                      dc_offset |-> dc_offset, calibrated |-> calibrated]] :
       gain \in Gains, dc_offset \in DcOffsets, calibrated \in BOOLEAN}

RawSignals ==
    {[i \in Mics |-> Samples(0, 0, 0)],
     [i \in Mics |-> Samples(16, -32, 8)],
     PerMic(Samples(16, 0, -16), Samples(48, 8, 0), Samples(-8, -8, 24), Samples(0, 64, 16))}

\* what the output buffers hold before the call
OutputSignals == {[i \in Mics |-> Samples(0, 0, 0)], [i \in Mics |-> Samples(7, 7, 7)]}

InitApply ==
    /\ pc = "call_calibration_apply"
    /\ sonar_state = ZeroState
    /\ mic_buffer = FrameOf({}, 0)
    /\ dma_running = FALSE
    /\ logger = ZeroLogger
    /\ log_call = NoLoggerCall
    /\ vehicle_state = ZeroVehicle
    /\ guidance_cmd = ZeroCmd
    /\ motor_thrust = <<0, 0, 0, 0>>
    /\ cycle = [trace |-> << >>, ms |-> 0, period |-> 0]
    /\ boot = [sonar_init_ret |-> 0, ever |-> {}]
    /\ last = NoCall
    /\ heap = [live |-> {}, overrun |-> FALSE, hot_path |-> {}]
    /\ config = ZeroConfig
    /\ cfg_call = NoConfigCall
    /\ mt = NoMultiTarget
    /\ cal \in Profiles
    /\ \E raw_signals \in RawSignals, calibrated_signals \in OutputSignals,
          length \in 0 .. ApplyCapacity :
          cal_call = [op |-> "none", raw_signals |-> raw_signals,
                      calibrated_signals |-> calibrated_signals, length |-> length,
                      before |-> [cal |-> cal, raw_signals |-> raw_signals,
                                  calibrated_signals |-> calibrated_signals]]

\* calibration_apply has returned, leaving r in the memory
ApplyReturns(r) ==
    /\ cal' = r.cal
    /\ cal_call' = [cal_call EXCEPT !.op = "calibration_apply",
                                    !.raw_signals = r.raw_signals,
                                    !.calibrated_signals = r.calibrated_signals]

CalApply ==
    /\ pc = "call_calibration_apply"
    /\ ApplyReturns(calibration_apply(cal, cal_call.raw_signals,
                                      cal_call.calibrated_signals, cal_call.length))
    /\ pc' = "called"
    /\ UNCHANGED CalibrationRest

NextApply == CalApply

SpecApply == InitApply /\ [][NextApply]_vars

\* the samples of the call: every channel and every index below length
Sampled == Mics \X {j \in 0 .. (ApplyCapacity - 1) : j < cal_call.length}

\* the output sample of channel s[1] at index s[2] is the raw sample less the
\* channel's DC offset, times the channel's gain
GainOnOffsetFree(s) ==
    cal_call.calibrated_signals[s[1]][s[2]] * AMP_ONE =
        (cal_call.before.raw_signals[s[1]][s[2]] - cal_call.before.cal.mic_cal.dc_offset[s[1]])
            * cal_call.before.cal.mic_cal.gain[s[1]]

\* the output sample is the raw sample
PassedThrough(s) ==
    cal_call.calibrated_signals[s[1]][s[2]] = cal_call.before.raw_signals[s[1]][s[2]]

\* C18: calibration_apply leaves in every output sample (raw - dc_offset) *
\* gain of its channel when the profile is calibrated and the raw sample
\* when it is not, and changes neither the profile nor the raw buffers.
C18_ApplyCorrectsOrCopies ==
    cal_call.op = "calibration_apply" =>
        /\ cal_call.before.cal.mic_cal.calibrated => \A s \in Sampled : GainOnOffsetFree(s)
        /\ ~cal_call.before.cal.mic_cal.calibrated => \A s \in Sampled : PassedThrough(s)
        /\ cal = cal_call.before.cal
        /\ cal_call.raw_signals = cal_call.before.raw_signals

\* a calibrated profile with an offset and a gain other than 1.0 has been
\* applied to a whole buffer, and the output differs from the raw samples
C18_CorrectedWholeBuffer ==
    /\ cal_call.op = "calibration_apply"
    /\ cal.mic_cal.calibrated
    /\ cal_call.length = ApplyCapacity
    /\ cal.mic_cal.dc_offset[0] # 0
    /\ cal.mic_cal.gain[0] \notin {0, AMP_ONE}
    /\ cal_call.calibrated_signals # cal_call.raw_signals

-----------------------------------------------------------------------------
(* sonar_generate_chirp called on a buffer with a length.                   *)

\* the lengths asked for
ChirpLengths == (0 .. Len(SHORT_CHIRP_PLUS)) \cup {SONAR_CHIRP_SAMPLES}

\* what the buffer holds before the call
ChirpBuffers == {Silence, Impulses({0, 1, 5}, 7)}

InitChirp ==
    /\ pc = "call_sonar_generate_chirp"
    /\ \E chirp \in ChirpBuffers, length \in ChirpLengths :
          /\ sonar_state = [ZeroState EXCEPT !.tx_chirp = chirp]
          /\ last = [op |-> "none", length |-> length, before |-> chirp,
                     written |-> {}, nan |-> {}, error |-> FALSE]
    /\ mic_buffer = FrameOf({}, 0)
    /\ dma_running = FALSE
    /\ logger = ZeroLogger
    /\ log_call = NoLoggerCall
    /\ vehicle_state = ZeroVehicle
    /\ guidance_cmd = ZeroCmd
    /\ motor_thrust = <<0, 0, 0, 0>>
    /\ cycle = [trace |-> << >>, ms |-> 0, period |-> 0]
    /\ boot = [sonar_init_ret |-> 0, ever |-> {}]
    /\ heap = [live |-> {}, overrun |-> FALSE, hot_path |-> {}]
    /\ config = ZeroConfig
    /\ cfg_call = NoConfigCall
    /\ mt = NoMultiTarget
    /\ cal = ZeroCalibration
    /\ cal_call = NoCalibrationCall

\* the buffer with its first length samples replaced by those of chirp
ChirpStored(buffer, chirp, length) ==
    Compact(Table([i \in {j \in DOMAIN buffer : j >= length} \cup DOMAIN chirp |->
                     IF i < length THEN chirp[i] ELSE buffer[i]]))

ChirpCall ==
    /\ pc = "call_sonar_generate_chirp"
    /\ sonar_state' = [sonar_state EXCEPT
                          !.tx_chirp = ChirpStored(@, sonar_generate_chirp(last.length),
                                                   last.length)]
    /\ last' = [last EXCEPT !.op = "sonar_generate_chirp",
                            !.written = ChirpWritten(last.length),
                            !.nan = ChirpNaN(last.length),
                            !.error = ChirpError(last.length)]
    /\ pc' = "called"
    /\ UNCHANGED <<mic_buffer, dma_running, vehicle_state, guidance_cmd, motor_thrust,
                   cycle, boot, heap, Others>>

NextChirp == ChirpCall

SpecChirp == InitChirp /\ [][NextChirp]_vars

\* C21: sonar_generate_chirp called with a length below 2 reports an error
\* and writes no sample; called with a length of 2 or more it reports none
\* and writes exactly the samples 0 .. length - 1.
C21_ChirpRejectsShortLength ==
    last.op = "sonar_generate_chirp" =>
        /\ last.length < 2 => last.error /\ last.written = {}
                                /\ sonar_state.tx_chirp = last.before
        /\ last.length >= 2 => ~last.error /\ last.written = 0 .. (last.length - 1)

-----------------------------------------------------------------------------
(* sonar_detect_target on a synthetic echo: after sonar_init the receive    *)
(* buffers hold a copy of the transmitted chirp that begins at the sample   *)
(* of the echo's time of flight, on each channel at the delay the           *)
(* beamformer gives the channel for the direction of the echo.              *)

\* the chirp scaled by the amplitude a and delayed to begin at sample p
Delayed(chirp, a, p) ==
    Table([q \in {p + j : j \in DOMAIN chirp} |-> a * AMP_ONE * chirp[q - p]])

\* the receive buffers for an echo of amplitude a from the direction of grid
\* point k, beginning at sample p
SyntheticEcho(p, a, k) ==
    [i \in Mics |->
       Delayed(sonar_generate_chirp(SONAR_CHIRP_SAMPLES), a,
               p - DelaySamples(GridAzimuth(k), GridElevation(k))[i])]

\* range 200 cm: 200 * 2 * SONAR_SAMPLE_RATE / (SPEED_OF_SOUND * 100) samples
EchoIndex == (200 * 2 * SONAR_SAMPLE_RATE) \div (SPEED_OF_SOUND * 100)

\* the grid points the echo comes from
EchoDirections == {0, 10, 19, 105, 190, 200, 210, 215, 250, 305, 380, 399}

\* the amplitudes of the echo
EchoAmplitudes == {100, 1000}

\* the sample counts of the acquisition
EchoSampleCounts == {2600, 3000, SONAR_MAX_SAMPLES}

InitEcho ==
    /\ pc = "call_sonar_detect_target"
    /\ \E k \in EchoDirections, a \in EchoAmplitudes, n \in EchoSampleCounts :
          /\ sonar_state = [sonar_init(ZeroState, {}).state EXCEPT
                               !.rx_buffer = SyntheticEcho(EchoIndex, a, k),
                               !.sample_count = n]
          /\ last = [op |-> "none", ret |-> 0, k |-> k, a |-> a, max_power |-> 0,
                     best_peak_idx |-> 0, scanned |-> << >>]
    /\ mic_buffer = FrameOf({}, 0)
    /\ dma_running = FALSE
    /\ logger = ZeroLogger
    /\ log_call = NoLoggerCall
    /\ vehicle_state = ZeroVehicle
    /\ guidance_cmd = ZeroCmd
    /\ motor_thrust = <<0, 0, 0, 0>>
    /\ cycle = [trace |-> << >>, ms |-> 0, period |-> 0]
    /\ boot = [sonar_init_ret |-> 0, ever |-> {"sonar_init"}]
    /\ heap = [live |-> Blocks, overrun |-> FALSE, hot_path |-> {}]
    /\ config = ZeroConfig
    /\ cfg_call = NoConfigCall
    /\ mt = NoMultiTarget
    /\ cal = ZeroCalibration
    /\ cal_call = NoCalibrationCall

\* the directions handed to sonar_beamform by the two loops, in call order
ScanOrder == [n \in 1 .. GridPoints |-> <<GridAzimuth(n - 1), GridElevation(n - 1)>>]

\* sonar_detect_target has returned r
EchoDetectReturns(r) ==
    /\ sonar_state' = r.state
    /\ heap' = [heap EXCEPT !.overrun = @ \/ r.overrun]
    /\ last' = [last EXCEPT !.op = "sonar_detect_target", !.ret = r.ret,
                            !.max_power = r.peak.max_power,
                            !.best_peak_idx = r.peak.best_peak_idx,
                            !.scanned = ScanOrder]

\* sonar_detect_target(&state) with filtered buffers that held 0.0 everywhere
EchoDetect ==
    /\ pc = "call_sonar_detect_target"
    /\ EchoDetectReturns(sonar_detect_target(sonar_state, FrameOf({}, 0)))
    /\ pc' = "called"
    /\ UNCHANGED <<mic_buffer, dma_running, vehicle_state, guidance_cmd, motor_thrust,
                   cycle, boot, Others>>

NextEcho == EchoDetect

SpecEcho == InitEcho /\ [][NextEcho]_vars

\* C22: sonar_detect_target on the echo reports a valid target at the
\* echo's sample, to within one sample, and at the echo's azimuth and
\* elevation, each to within one step of the grid.
C22_EchoRecovered ==
    last.op = "sonar_detect_target" =>
        /\ last.ret = 0
        /\ sonar_state.target.valid
        /\ Abs(last.best_peak_idx - EchoIndex) <= 1
        /\ Abs(sonar_state.target.azimuth_rad - GridAzimuth(last.k)) <= az_step
        /\ Abs(sonar_state.target.elevation_rad - GridElevation(last.k)) <= el_step

\* C27: the scan of sonar_detect_target beamforms every pair of the
\* BEAMFORM_AZIMUTH_STEPS azimuths and BEAMFORM_ELEVATION_STEPS elevations
\* once, every direction lies within the bounds, the first azimuth and
\* elevation are the minima and the last are the maxima.
C27_GridCoversBounds ==
    last.op = "sonar_detect_target" =>
        /\ Len(last.scanned) = BEAMFORM_AZIMUTH_STEPS * BEAMFORM_ELEVATION_STEPS
        /\ \A m, n \in DOMAIN last.scanned : m # n => last.scanned[m] # last.scanned[n]
        /\ \A n \in DOMAIN last.scanned :
              /\ last.scanned[n][1] >= BEAMFORM_AZIMUTH_MIN
              /\ last.scanned[n][1] <= BEAMFORM_AZIMUTH_MAX
              /\ last.scanned[n][2] >= BEAMFORM_ELEVATION_MIN
              /\ last.scanned[n][2] <= BEAMFORM_ELEVATION_MAX
        /\ last.scanned[1] = <<BEAMFORM_AZIMUTH_MIN, BEAMFORM_ELEVATION_MIN>>
        /\ last.scanned[Len(last.scanned)] = <<BEAMFORM_AZIMUTH_MAX, BEAMFORM_ELEVATION_MAX>>

-----------------------------------------------------------------------------
(* sonar_matched_filter called for one channel of an initialised state      *)
(* whose receive buffers hold sample_count samples.                         *)

\* the sample counts of the acquisition
FilterSampleCounts ==
    {1, 2, SONAR_CHIRP_SAMPLES - 1, SONAR_CHIRP_SAMPLES, SONAR_CHIRP_SAMPLES + 1, 1000,
     3015, 3016, 4000, SONAR_MAX_SAMPLES}

\* receive buffers of n samples: a at the first and at the last sample
FilterFrames(n) == {FrameOf({0, n - 1}, a) : a \in {AMP_ONE, -2 * AMP_ONE}}

\* what the filtered buffers hold before the call
FilterJunk == {FrameOf({}, 0), FrameOf({0, 300, 6029}, 7)}

InitFilter ==
    /\ pc = "call_sonar_matched_filter"
    /\ \E n \in FilterSampleCounts, mic_idx \in Mics, junk \in FilterJunk :
          \E frame \in FilterFrames(n) :
             /\ sonar_state = [sonar_init(ZeroState, {}).state EXCEPT
                                  !.rx_buffer = frame,
                                  !.filtered_buffer = junk,
                                  !.sample_count = n]
             /\ last = [op |-> "none", mic_idx |-> mic_idx, first |-> 0, last |-> 0,
                        rx_buffer |-> frame,
                        matched_filter |-> sonar_init(ZeroState, {}).state.matched_filter]
    /\ mic_buffer = FrameOf({}, 0)
    /\ dma_running = FALSE
    /\ logger = ZeroLogger
    /\ log_call = NoLoggerCall
    /\ vehicle_state = ZeroVehicle
    /\ guidance_cmd = ZeroCmd
    /\ motor_thrust = <<0, 0, 0, 0>>
    /\ cycle = [trace |-> << >>, ms |-> 0, period |-> 0]
    /\ boot = [sonar_init_ret |-> 0, ever |-> {"sonar_init"}]
    /\ heap = [live |-> Blocks, overrun |-> FALSE, hot_path |-> {}]
    /\ config = ZeroConfig
    /\ cfg_call = NoConfigCall
    /\ mt = NoMultiTarget
    /\ cal = ZeroCalibration
    /\ cal_call = NoCalibrationCall

\* sonar_matched_filter has returned: r is what it left in the block, c the
\* places arm_correlate_f32 has written
FilterReturns(r, c) ==
    /\ sonar_state' = [sonar_state EXCEPT !.filtered_buffer[last.mic_idx] = r.buf]
    /\ heap' = [heap EXCEPT !.overrun = @ \/ r.overrun]
    /\ last' = [last EXCEPT !.op = "sonar_matched_filter", !.first = c.first, !.last = c.last]

FilterCall ==
    /\ pc = "call_sonar_matched_filter"
    /\ FilterReturns(sonar_matched_filter(sonar_state, last.mic_idx,
                                          sonar_state.filtered_buffer[last.mic_idx]),
                     arm_correlate_f32(sonar_state.rx_buffer[last.mic_idx],
                                       sonar_state.sample_count,
                                       sonar_state.matched_filter, SONAR_CHIRP_SAMPLES))
    /\ pc' = "called"
    /\ UNCHANGED <<mic_buffer, dma_running, vehicle_state, guidance_cmd, motor_thrust,
                   cycle, boot, Others>>

NextFilter == FilterCall

SpecFilter == InitFilter /\ [][NextFilter]_vars

\* C23: sonar_matched_filter on sample_count <= SONAR_MAX_SAMPLES samples
\* writes sample_count + SONAR_CHIRP_SAMPLES - 1 output samples, every one
\* of them inside the block of SONAR_MAX_SAMPLES + SONAR_CHIRP_SAMPLES floats,
\* and leaves the receive buffers and the kernel as they were.
C23_FilterWithinBlock ==
    (last.op = "sonar_matched_filter" /\ sonar_state.sample_count <= SONAR_MAX_SAMPLES) =>
        /\ (last.last - last.first) + 1
              = (sonar_state.sample_count + SONAR_CHIRP_SAMPLES) - 1
        /\ last.first >= 0
        /\ last.last < SONAR_MAX_SAMPLES + SONAR_CHIRP_SAMPLES
        /\ ~heap.overrun
        /\ sonar_state.rx_buffer = last.rx_buffer
        /\ sonar_state.matched_filter = last.matched_filter

-----------------------------------------------------------------------------
(* The body of the scan loop of sonar_detect_target at one grid point:      *)
(* sonar_beamform on filtered buffers of sample_count samples, then         *)
(* arm_max_f32 on its output.                                               *)

\* the grid points steered to
BeamDirections == {0, 10, 19, 45, 105, 150, 190, 200, 210, 215, 250, 275, 305, 330, 380, 399}

BeamSampleCounts == {60, 100}

\* the filtered buffers; samples at 60 and beyond lie outside the first
\* sample count
BeamFrames ==
    {FrameOf({50}, 4 * AMP_ONE),
     FrameOf({0, 3, 50, 59, 60, 99, 105}, 4 * AMP_ONE),
     [i \in Mics |-> Impulses({50}, -256 * AMP_ONE) @@ Impulses({30}, 4 * AMP_ONE)],
     [i \in Mics |-> Impulses({50 + i}, 4 * (i + 1)) @@ Impulses({52 - i}, -8)]}

\* what beamformed_output holds before the call
BeamOutputs == {Silence, Impulses({10, 80, 200}, 7)}

InitBeam ==
    /\ pc = "call_sonar_beamform"
    /\ \E k \in BeamDirections, n \in BeamSampleCounts, frame \in BeamFrames,
          output \in BeamOutputs :
          /\ sonar_state = [sonar_init(ZeroState, {}).state EXCEPT
                               !.filtered_buffer = frame,
                               !.beamformed_output = output,
                               !.sample_count = n]
          /\ last = [op |-> "none", k |-> k,
                     shift |-> DelaySamples(GridAzimuth(k), GridElevation(k)),
                     before |-> [sonar_init(ZeroState, {}).state EXCEPT
                                   !.filtered_buffer = frame,
                                   !.beamformed_output = output,
                                   !.sample_count = n],
                     power |-> 0, idx |-> 0]
    /\ mic_buffer = FrameOf({}, 0)
    /\ dma_running = FALSE
    /\ logger = ZeroLogger
    /\ log_call = NoLoggerCall
    /\ vehicle_state = ZeroVehicle
    /\ guidance_cmd = ZeroCmd
    /\ motor_thrust = <<0, 0, 0, 0>>
    /\ cycle = [trace |-> << >>, ms |-> 0, period |-> 0]
    /\ boot = [sonar_init_ret |-> 0, ever |-> {"sonar_init"}]
    /\ heap = [live |-> Blocks, overrun |-> FALSE, hot_path |-> {}]
    /\ config = ZeroConfig
    /\ cfg_call = NoConfigCall
    /\ mt = NoMultiTarget
    /\ cal = ZeroCalibration
    /\ cal_call = NoCalibrationCall

BeamRest == <<mic_buffer, dma_running, vehicle_state, guidance_cmd, motor_thrust,
              cycle, boot, heap, Others>>

\* sonar_beamform(state, azimuth, elevation) at the grid point
BeamCall ==
    /\ pc = "call_sonar_beamform"
    /\ sonar_state' = [sonar_state EXCEPT
                          !.beamformed_output =
                              sonar_beamform(sonar_state, GridAzimuth(last.k),
                                             GridElevation(last.k))]
    /\ last' = [last EXCEPT !.op = "sonar_beamform"]
    /\ pc' = "call_arm_max_f32"
    /\ UNCHANGED BeamRest

\* arm_max_f32 has returned the peak; power = fabsf(max_val)
BeamPeakReturns(peak) ==
    last' = [last EXCEPT !.op = "arm_max_f32", !.power = peak.power, !.idx = peak.idx]

BeamPeak ==
    /\ pc = "call_arm_max_f32"
    /\ BeamPeakReturns(PeakAt(last.k, arm_max_f32(sonar_state.beamformed_output,
                                                  sonar_state.sample_count)))
    /\ pc' = "called"
    /\ UNCHANGED <<sonar_state, BeamRest>>

NextBeam ==
    \/ BeamCall
    \/ BeamPeak

SpecBeam == InitBeam /\ [][NextBeam]_vars

\* what channel i adds to output sample j: the sample shift[i] earlier, or
\* nothing if that is no sample of 0 .. sample_count - 1
Contribution(i, j) ==
    IF j - last.shift[i] >= 0 /\ j - last.shift[i] < last.before.sample_count
    THEN Get(last.before.filtered_buffer[i], j - last.shift[i])
    ELSE 0

RoundDiv(a, b) == IF a >= 0 THEN (2 * a + b) \div (2 * b) ELSE -((2 * (-a) + b) \div (2 * b))

\* C25: the shift sonar_beamform gives channel i is the nearest integer to
\* the channel's delay relative to microphone 0 times the sample rate, and
\* the shift of microphone 0 is 0.
C25_ShiftIsRounded ==
    last.op # "none" =>
        /\ last.shift[0] = 0
        /\ \A i \in Mics :
              last.shift[i]
                = RoundDiv(Delays(GridAzimuth(last.k), GridElevation(last.k))[i]
                             * (SONAR_SAMPLE_RATE \div 1000),
                           SPEED_OF_SOUND * TRIG_ONE)

\* C26: the peak recorded at the grid point is the largest absolute value of
\* the beamformed output and an index that holds it.
C26_PeakIsLargestMagnitude ==
    last.op = "arm_max_f32" =>
        /\ \A j \in 0 .. (sonar_state.sample_count - 1) :
              last.power >= Abs(Get(sonar_state.beamformed_output, j))
        /\ last.idx \in 0 .. (sonar_state.sample_count - 1)
        /\ Abs(Get(sonar_state.beamformed_output, last.idx)) = last.power

-----------------------------------------------------------------------------
(* signal_find_peaks called on a buffer of PeakCapacity samples with a      *)
(* length, a threshold and a capacity of the peak list.                     *)

PeakCapacity == 5

\* the buffers: every sample is -3.0, 0.0 or 2.0
PeakSignals == [0 .. (PeakCapacity - 1) -> {-3, 0, 2}]

\* the float threshold v, a mean with no deviation
ThresholdOf(v) == [n |-> 1, sum |-> v, sumsq |-> v * v]

PeakThresholds == {1, 2}

PeakListSizes == {0, 1, 2}

InitPeaks ==
    /\ pc = "call_signal_find_peaks"
    /\ \E signal \in PeakSignals, length \in 0 .. PeakCapacity,
          threshold \in PeakThresholds, max_peaks \in PeakListSizes :
          mt = [signal |-> signal, length |-> length, threshold |-> threshold,
                max_peaks |-> max_peaks, called |-> FALSE, ret |-> 0, peaks |-> << >>]
    /\ sonar_state = ZeroState
    /\ mic_buffer = FrameOf({}, 0)
    /\ dma_running = FALSE
    /\ logger = ZeroLogger
    /\ log_call = NoLoggerCall
    /\ vehicle_state = ZeroVehicle
    /\ guidance_cmd = ZeroCmd
    /\ motor_thrust = <<0, 0, 0, 0>>
    /\ cycle = [trace |-> << >>, ms |-> 0, period |-> 0]
    /\ boot = [sonar_init_ret |-> 0, ever |-> {}]
    /\ last = NoCall
    /\ heap = [live |-> {}, overrun |-> FALSE, hot_path |-> {}]
    /\ config = ZeroConfig
    /\ cfg_call = NoConfigCall
    /\ cal = ZeroCalibration
    /\ cal_call = NoCalibrationCall

\* signal_find_peaks has returned r
PeaksCallReturns(r) ==
    mt' = [mt EXCEPT !.called = TRUE, !.ret = r.ret, !.peaks = r.peaks]

PeaksCall ==
    /\ pc = "call_signal_find_peaks"
    /\ PeaksCallReturns(signal_find_peaks(mt.signal, mt.length, ThresholdOf(mt.threshold),
                                          mt.max_peaks))
    /\ pc' = "called"
    /\ UNCHANGED <<heap, MultiRest>>

NextPeaks == PeaksCall

SpecPeaks == InitPeaks /\ [][NextPeaks]_vars

\* the interior samples above the threshold and above both neighbours
Qualifying ==
    {i \in 0 .. (PeakCapacity - 1) :
       /\ 0 < i
       /\ i < mt.length - 1
       /\ Abs(mt.signal[i]) > mt.threshold
       /\ Abs(mt.signal[i]) > Abs(mt.signal[i - 1])
       /\ Abs(mt.signal[i]) > Abs(mt.signal[i + 1])}

\* C28: signal_find_peaks on a length of 1 or more returns, in increasing
\* order, the lowest max_peaks interior samples that are above the threshold
\* and above both neighbours in absolute value, and never more than max_peaks.
C28_PeaksAreInteriorMaxima ==
    (mt.called /\ mt.length >= 1) =>
        /\ mt.ret = 0
        /\ Len(mt.peaks) <= mt.max_peaks
        /\ \A n \in DOMAIN mt.peaks : mt.peaks[n] \in Qualifying
        /\ \A m, n \in DOMAIN mt.peaks : m < n => mt.peaks[m] < mt.peaks[n]
        /\ \A q \in Qualifying :
              (\A n \in DOMAIN mt.peaks : mt.peaks[n] # q) =>
                  /\ Len(mt.peaks) = mt.max_peaks
                  /\ \A n \in DOMAIN mt.peaks : mt.peaks[n] < q

\* the list is full and a later peak of the signal is left out
C28_LaterPeakLeftOut ==
    /\ mt.called
    /\ mt.max_peaks > 0
    /\ Len(mt.peaks) = mt.max_peaks
    /\ \E q \in Qualifying : \A n \in DOMAIN mt.peaks : mt.peaks[n] < q

-----------------------------------------------------------------------------
(* The data logger: any calls of logger_* on one data_logger_t *)

\* what HAL_GetTick() may return at a log call
LoggerTicks == {10}

\* the target handed to logger_log_target
LoggedTarget == [range_cm |-> 200 * RANGE_DEN, azimuth_rad |-> 0, elevation_rad |-> 0,
                 confidence |-> CONF_ONE, valid |-> TRUE]

\* the command handed to logger_log_guidance
LoggedCmd == [ZeroCmd EXCEPT !.accel_x = 1000]

InitLogger ==
    /\ pc = "logger_init"
    /\ sonar_state = ZeroState
    /\ mic_buffer = FrameOf({}, 0)
    /\ dma_running = FALSE
    /\ logger = ZeroLogger
    /\ log_call = NoLoggerCall
    /\ vehicle_state = ZeroVehicle
    /\ guidance_cmd = ZeroCmd
    /\ motor_thrust = <<0, 0, 0, 0>>
    /\ cycle = [trace |-> << >>, ms |-> 0, period |-> 0]
    /\ boot = [sonar_init_ret |-> 0, ever |-> {}]
    /\ last = NoCall
    /\ heap = [live |-> {}, overrun |-> FALSE, hot_path |-> {}]
    /\ config = ZeroConfig
    /\ cfg_call = NoConfigCall
    /\ mt = NoMultiTarget
    /\ cal = ZeroCalibration
    /\ cal_call = NoCalibrationCall

LoggerRest == <<sonar_state, mic_buffer, dma_running, vehicle_state, guidance_cmd,
                motor_thrust, cycle, boot, last, heap, config, cfg_call, mt, cal,
                cal_call>>

\* a logger_* call has returned ret and left lg; owed are the entries logged
\* with a return of 0 since the last logger_init or logger_clear and not
\* yet handed out by logger_read
LoggerReturns(op, ret, lg, owed) ==
    /\ logger' = lg
    /\ log_call' = [log_call EXCEPT !.op = op, !.ret = ret, !.sent = << >>,
                                    !.before = logger, !.owed = owed,
                                    !.owed_before = log_call.owed]

\* a logger_log_* call has returned r; valid_args says that no pointer handed
\* to it was NULL
LogReturns(op, valid_args, r) ==
    /\ logger' = r.logger
    /\ log_call' = [log_call EXCEPT
           !.op = op, !.ret = r.ret, !.sent = << >>, !.before = logger,
           !.valid_args = valid_args,
           !.owed = IF r.ret = 0
                    THEN Append(@, r.logger.entries[logger.write_index])
                    ELSE @,
           !.owed_before = log_call.owed]

LogInit ==
    /\ pc \in {"logger_init", "logger"}
    /\ LoggerReturns("logger_init", logger_init(logger).ret, logger_init(logger).logger,
                     << >>)
    /\ pc' = "logger"
    /\ UNCHANGED LoggerRest

LogSetEnabled ==
    /\ pc = "logger"
    /\ \E enable \in BOOLEAN :
          LoggerReturns("logger_set_enabled", 0, logger_set_enabled(logger, enable),
                        log_call.owed)
    /\ UNCHANGED <<pc, LoggerRest>>

LogSonar ==
    /\ pc = "logger"
    /\ \E tick \in LoggerTicks :
          LogReturns("logger_log_sonar", TRUE,
                     logger_log_sonar(logger, "rx_buffer", SONAR_MAX_SAMPLES,
                                      "beamformed_output", SONAR_MAX_SAMPLES, tick))
    /\ UNCHANGED <<pc, LoggerRest>>

LogTarget ==
    /\ pc = "logger"
    /\ \E target \in {NULL, AddressOf(LoggedTarget)}, tick \in LoggerTicks :
          LogReturns("logger_log_target", target # NULL,
                     logger_log_target(logger, target, CONF_ONE, tick))
    /\ UNCHANGED <<pc, LoggerRest>>

LogGuidance ==
    /\ pc = "logger"
    /\ \E cmd \in {NULL, AddressOf(LoggedCmd)},
          vehicle \in {NULL, AddressOf(ZeroVehicle)}, tick \in LoggerTicks :
          LogReturns("logger_log_guidance", cmd # NULL /\ vehicle # NULL,
                     logger_log_guidance(logger, cmd, vehicle, tick))
    /\ UNCHANGED <<pc, LoggerRest>>

LogGetCount ==
    /\ pc = "logger"
    /\ LoggerReturns("logger_get_count", logger_get_count(logger), logger, log_call.owed)
    /\ UNCHANGED <<pc, LoggerRest>>

\* logger_read has returned r
ReadReturns(r) ==
    /\ logger' = r.logger
    /\ log_call' = [log_call EXCEPT !.op = "logger_read", !.ret = r.ret,
                                    !.entry = r.entry, !.sent = << >>,
                                    !.before = logger,
                                    !.owed = IF r.ret = 0 THEN Tail(@) ELSE @,
                                    !.owed_before = log_call.owed]

LogRead ==
    /\ pc = "logger"
    /\ ReadReturns(logger_read(logger, log_call.entry))
    /\ UNCHANGED <<pc, LoggerRest>>

LogClear ==
    /\ pc = "logger"
    /\ LoggerReturns("logger_clear", 0, logger_clear(logger), << >>)
    /\ UNCHANGED <<pc, LoggerRest>>

\* logger_export_uart has returned r
ExportReturns(r) ==
    /\ logger' = r.logger
    /\ log_call' = [log_call EXCEPT !.op = "logger_export_uart", !.ret = r.ret,
                                    !.sent = r.sent, !.before = logger,
                                    !.owed_before = log_call.owed]

LogExportUart ==
    /\ pc = "logger"
    /\ ExportReturns(logger_export_uart(logger))
    /\ UNCHANGED <<pc, LoggerRest>>

NextLogger ==
    \/ LogInit
    \/ LogSetEnabled
    \/ LogSonar
    \/ LogTarget
    \/ LogGuidance
    \/ LogGetCount
    \/ LogRead
    \/ LogClear
    \/ LogExportUart

SpecLogger == InitLogger /\ [][NextLogger]_vars

\* the slot of the ring that holds the k-th entry owed
SlotOf(k) == (logger.read_index + k - 1) % LOGGER_MAX_ENTRIES

\* C29: the logger is a FIFO of LOGGER_MAX_ENTRIES entries. After any calls
\* of logger_init, logger_set_enabled, logger_log_sonar, logger_log_target,
\* logger_log_guidance, logger_read and logger_export_uart, entry_count is
\* between 0 and LOGGER_MAX_ENTRIES, write_index is read_index plus
\* entry_count modulo LOGGER_MAX_ENTRIES, the ring holds from read_index on
\* the entries logged with success and not yet read, in the order they were
\* logged, logger_read hands out the oldest of them (and returns -2 when
\* there is none), and logger_export_uart consumes none.
C29_LoggerIsFifo ==
    /\ 0 <= logger.entry_count
    /\ logger.entry_count <= LOGGER_MAX_ENTRIES
    /\ logger.write_index = (logger.read_index + logger.entry_count) % LOGGER_MAX_ENTRIES
    /\ Len(log_call.owed) = logger.entry_count
    /\ \A k \in 1 .. Len(log_call.owed) : logger.entries[SlotOf(k)] = log_call.owed[k]
    /\ log_call.op = "logger_read" =>
          IF log_call.owed_before = << >>
          THEN log_call.ret = -2
          ELSE /\ log_call.ret = 0
               /\ log_call.entry = Head(log_call.owed_before)
               /\ logger.entry_count = log_call.before.entry_count - 1
    /\ log_call.op = "logger_export_uart" =>
          /\ log_call.ret = 0
          /\ logger = log_call.before
          /\ log_call.owed = log_call.owed_before

\* a read hands out a guidance entry from a ring whose entries wrap around
\* the end of the array, a later entry still waiting behind it
C29_ReadFromWrappedRing ==
    /\ log_call.op = "logger_read"
    /\ log_call.ret = 0
    /\ log_call.before.write_index < log_call.before.read_index
    /\ log_call.before.write_index > 0
    /\ log_call.entry.type = "LOG_ENTRY_GUIDANCE_CMD"
    /\ logger.entry_count >= 1

LogOps == {"logger_log_sonar", "logger_log_target", "logger_log_guidance"}

\* the log call has stored nothing
NothingStored ==
    /\ logger.entries = log_call.before.entries
    /\ logger.write_index = log_call.before.write_index
    /\ logger.read_index = log_call.before.read_index
    /\ logger.entry_count = log_call.before.entry_count

\* once set, the overflow flag is cleared by logger_clear and logger_init only
OverflowKept ==
    (log_call.before.overflow /\ log_call.op \notin {"logger_clear", "logger_init"})
        => logger.overflow

-----------------------------------------------------------------------------
(* The configuration store: properties *)

\* the ranges of a valid configuration
InRanges(cfg) ==
    /\ cfg.sonar.sample_rate \in 100000 .. 500000
    /\ cfg.sonar.chirp_duration_ms \in 1 .. 10
    /\ cfg.sonar.chirp_f0 < cfg.sonar.chirp_f1
    /\ cfg.sonar.min_range_cm < cfg.sonar.max_range_cm
    /\ ~cfg.guidance.navigation_constant.nan
    /\ cfg.guidance.navigation_constant.val \in (1 * CONFIG_ONE) .. (10 * CONFIG_ONE)
    /\ ~cfg.guidance.max_acceleration.nan
    /\ cfg.guidance.max_acceleration.val > 0

\* C11: config_validate returns 0 exactly for the configurations within the
\* ranges and a negative code for every other one, and what config_init has
\* written is within the ranges.
C11_ValidateExact ==
    /\ cfg_call.op = "config_validate" =>
          /\ (cfg_call.ret = 0) <=> InRanges(config)
          /\ cfg_call.ret <= 0
    /\ cfg_call.op = "config_init" => InRanges(config)

-----------------------------------------------------------------------------
(* The main loop: properties *)

\* the calls of the current cycle, in order
CycleOps == [n \in 1 .. Len(cycle.trace) |-> cycle.trace[n].op]

\* op has been called in the current cycle
Called(op) == \E n \in 1 .. Len(cycle.trace) : cycle.trace[n].op = op

\* in the current cycle sonar_detect_target has returned 0 and, after it,
\* sonar_get_target has returned 0
FoundTarget ==
    \E d, g \in 1 .. Len(cycle.trace) :
        /\ d < g
        /\ cycle.trace[d].op = "sonar_detect_target" /\ cycle.trace[d].ret = 0
        /\ cycle.trace[g].op = "sonar_get_target" /\ cycle.trace[g].ret = 0

\* the steps of a cycle before its closing delay, in program order
CycleOrder == <<"ultrasonic_tx_transmit", "HAL_Delay", "dfsdm_mic_start",
                "dfsdm_mic_stop", "dfsdm_convert_pdm_to_pcm", "sonar_detect_target",
                "sonar_get_target", "guidance_compute", "guidance_to_motors">>

\* the position of sonar_detect_target in CycleOrder
DetectStep == CHOOSE n \in 1 .. Len(CycleOrder) : CycleOrder[n] = "sonar_detect_target"

\* C1: main is about to call guidance_compute or guidance_to_motors, or a
\* step changes the guidance command or the motor thrusts, only in a cycle
\* whose sonar_detect_target and sonar_get_target have both returned 0.
C1_GuidanceOnlyOnTarget ==
    [][(\/ pc \in {"guidance_compute", "guidance_to_motors"}
        \/ guidance_cmd' # guidance_cmd
        \/ motor_thrust' # motor_thrust) => FoundTarget]_vars

\* a cycle that found a target has computed the command and the thrusts,
\* after an earlier cycle (period is set) that did not
C1_GuidedCycle ==
    /\ pc = "cycle_delay"
    /\ FoundTarget
    /\ Called("guidance_compute") /\ Called("guidance_to_motors")
    /\ motor_thrust = guidance_to_motors(guidance_cmd)
    /\ cycle.period > 0

\* C2: sonar_get_target has returned 0 exactly when a sonar_detect_target has
\* been called and the most recent one returned 0, and then the caller's
\* target is a copy of the valid state->target; so an estimate left in the
\* state by an earlier detection is not returned after a detection that
\* found no target.
C2_GetTargetIffLastDetection ==
    last.op = "sonar_get_target" =>
        /\ (last.ret = 0) <=> (last.detected /\ last.detect_ret = 0)
        /\ last.ret = 0 => last.out = sonar_state.target /\ last.out.valid

\* sonar_get_target has refused after a failed detection, while the state
\* still holds the range of an earlier detection
C2_StaleEstimateRefused ==
    /\ last.op = "sonar_get_target"
    /\ last.ret # 0
    /\ last.detected /\ last.detect_ret # 0
    /\ sonar_state.target.range_cm > 0
    /\ sonar_state.processing_complete

\* main has just come back from sonar_detect_target
JustDetected ==
    /\ last.op = "sonar_detect_target"
    /\ Len(cycle.trace) = DetectStep
    /\ cycle.trace[DetectStep].op = "sonar_detect_target"

\* C3: after a sonar_detect_target whose largest peak over the grid was below
\* DETECTION_THRESHOLD, the return value is non-zero, main goes on to the end
\* of the cycle, target.valid is false, and range, azimuth, elevation and
\* confidence are those from before the call.
C3_BelowThresholdNoTarget ==
    (JustDetected /\ last.max_power < THRESHOLD_AMP) =>
        /\ last.ret # 0
        /\ pc = "cycle_delay"
        /\ ~sonar_state.target.valid
        /\ sonar_state.target.range_cm = last.before.range_cm
        /\ sonar_state.target.azimuth_rad = last.before.azimuth_rad
        /\ sonar_state.target.elevation_rad = last.before.elevation_rad
        /\ sonar_state.target.confidence = last.before.confidence

\* a detection with a peak under the threshold, made on a state that held a
\* valid estimate
C3_WeakPeakAfterTarget ==
    /\ JustDetected
    /\ last.max_power > 0 /\ last.max_power < THRESHOLD_AMP
    /\ last.before.valid /\ last.before.range_cm > 0
    /\ last.ret # 0

\* the range of peak index idx is below MIN_RANGE_CM or above MAX_RANGE_CM:
\* idx / SONAR_SAMPLE_RATE * SPEED_OF_SOUND * 100 / 2, cleared of fractions
RangeOutside(idx) ==
    \/ idx * SPEED_OF_SOUND * 100 < MIN_RANGE_CM * 2 * SONAR_SAMPLE_RATE
    \/ idx * SPEED_OF_SOUND * 100 > MAX_RANGE_CM * 2 * SONAR_SAMPLE_RATE

\* C4: after a sonar_detect_target whose largest peak reached the threshold
\* at an index whose range is outside [MIN_RANGE_CM, MAX_RANGE_CM], the return
\* value is non-zero, main goes on to the end of the cycle and target.valid
\* is false.
C4_OutOfRangeNoTarget ==
    (/\ JustDetected
     /\ last.max_power >= THRESHOLD_AMP
     /\ RangeOutside(last.best_peak_idx)) =>
        /\ last.ret # 0
        /\ pc = "cycle_delay"
        /\ ~sonar_state.target.valid

\* a peak over the threshold closer than MIN_RANGE_CM has been rejected
C4_NearPeakRejected ==
    /\ JustDetected
    /\ last.max_power >= THRESHOLD_AMP
    /\ RangeOutside(last.best_peak_idx)
    /\ last.ret = -3

\* C5: whenever target.valid is true, range_cm is within [MIN_RANGE_CM,
\* MAX_RANGE_CM], confidence is min(max_power / (DETECTION_THRESHOLD * 10), 1)
\* of the detection's peak (to a CONF_ONE-th) and so within [0, 1], and
\* azimuth and elevation are points of the search grid.
C5_ValidEstimate ==
    sonar_state.target.valid =>
        /\ sonar_state.target.range_cm >= MIN_RANGE_CM * RANGE_DEN
        /\ sonar_state.target.range_cm <= MAX_RANGE_CM * RANGE_DEN
        /\ sonar_state.target.confidence >= 0
        /\ sonar_state.target.confidence <= CONF_ONE
        /\ \/ /\ sonar_state.target.confidence = CONF_ONE
              /\ last.max_power >= THRESHOLD_AMP * 10
           \/ /\ sonar_state.target.confidence * THRESHOLD_AMP * 10
                   <= last.max_power * CONF_ONE
              /\ last.max_power * CONF_ONE
                   < (sonar_state.target.confidence + 1) * THRESHOLD_AMP * 10
        /\ \E az_idx \in 0 .. (BEAMFORM_AZIMUTH_STEPS - 1) :
              sonar_state.target.azimuth_rad = BEAMFORM_AZIMUTH_MIN + az_idx * az_step
        /\ \E el_idx \in 0 .. (BEAMFORM_ELEVATION_STEPS - 1) :
              sonar_state.target.elevation_rad = BEAMFORM_ELEVATION_MIN + el_idx * el_step

\* a valid estimate whose confidence the fminf has capped at 1.0
C5_CappedConfidence ==
    /\ sonar_state.target.valid
    /\ last.max_power > THRESHOLD_AMP * 10
    /\ sonar_state.target.confidence = CONF_ONE

\* C6: once sonar_init has returned non-zero, main is in Error_Handler and
\* has never transmitted, started the acquisition or run the detection.
C6_InitFailureHalts ==
    boot.sonar_init_ret # 0 =>
        /\ pc = "Error_Handler"
        /\ boot.ever \cap {"ultrasonic_tx_transmit", "dfsdm_mic_start", "dfsdm_mic_stop",
                           "sonar_detect_target"} = {}

\* sonar_init has failed on an allocation and main sits in Error_Handler
C6_InitFailed ==
    /\ "sonar_init" \in boot.ever
    /\ boot.sonar_init_ret # 0
    /\ heap.live # Blocks
    /\ pc = "Error_Handler"

\* the cycle has reached its closing HAL_Delay
CycleClosed ==
    /\ Len(cycle.trace) > DetectStep
    /\ cycle.trace[Len(cycle.trace)].op = "HAL_Delay"

UPDATE_RATE_MIN_HZ == 10
UPDATE_RATE_MAX_HZ == 30

\* C8: guidance_compute is called less than LATENCY_BUDGET_MS after the start
\* of the cycle's transmission, and a completed cycle has taken between
\* 1/UPDATE_RATE_MAX_HZ and 1/UPDATE_RATE_MIN_HZ seconds.
C8_LatencyWithinBudget ==
    /\ \A n \in 1 .. Len(cycle.trace) :
          cycle.trace[n].op = "guidance_compute" => cycle.trace[n].at < LATENCY_BUDGET_MS
    /\ cycle.period > 0 =>
          /\ cycle.period * UPDATE_RATE_MAX_HZ >= 1000
          /\ cycle.period * UPDATE_RATE_MIN_HZ <= 1000

=============================================================================
